---- MODULE Spec2Model ----
(***************************************************************************)
(* Model of the health-monitoring and multi-loop orchestration subsystem:  *)
(*   TradingBot          src/src/bot/trading_bot.py                        *)
(*   MonitoringService   src/src/monitoring/run_monitoring.py              *)
(*   APIMonitor          src/src/monitoring/api_monitor.py                 *)
(*   MarketUpdater       src/src/services/market_updater.py                *)
(*                                                                         *)
(* Every thread is a program counter plus its local variables; one action  *)
(* is one step of a thread between two reads or writes of shared state.    *)
(* time.sleep() has no effect on the state and is folded into the step     *)
(* that precedes it.  Wall-clock time is kept as the elapsed time since a  *)
(* timestamp (now - last_check[e]), which is all the code ever computes    *)
(* from a timestamp; the Tick action lets one unit of time pass.           *)
(***************************************************************************)
EXTENDS Integers, Sequences, FiniteSets, TLC

\* ----------------------------------------------------------------- bounds
\* Number of traded symbols (TradingBot(symbols=...)); symbols are 1..NSymbols
\* in list order.
NSymbols == 1
\* MonitoringService(check_interval=...) in time units (the bot passes 60 s).
CheckInterval == 2
\* metrics_summary_interval in time units (300 s in the source).
SummaryInterval == 3
\* Largest total_requests the model lets an APIMonitor client reach.
MaxRequests == 2
\* Largest consecutive_failures the model lets an APIMonitor client reach.
MaxFailures == 4
\* Measured latencies are 1..MaxLatency, in units of 1000 ms.
MaxLatency == 3
\* The most metrics the monitor's log is let grow to in the call-by-call runs.
MaxMetrics == 3
\* Largest total_requests of a monitor whose alerts are read.
MaxTotal == 10
\* Most latency metrics in the log of a monitor whose alerts are read.
MaxLogged == 2
\* Last time of the clock that stamps the alerts.
MaxNow == 1
\* Most rate-limit buckets in one answer of get_exchange_info.
MaxBuckets == 2
\* Most rate_limit metrics the log is let grow to.
MaxRateChecks == 2
\* Number of symbols of a MarketUpdater run on its own (symbols=...).
NUpdaterSymbols == 2
\* Most documents the market_data collection is let grow to.
MaxStored == 2

\* ------------------------------------------------------ program constants
NEndpoints == 3
MaxConsecutiveErrors == 3
MaxRetries == 3
ConsecutiveFailuresThreshold == 3
\* alert_thresholds['latency'], in ms.
LatencyThreshold == 2000
\* alert_thresholds['error_rate'], in percent.
ErrorRateThresholdPercent == 10
\* alert_thresholds['rate_limit_threshold'], in percent.
RateLimitThresholdPercent == 80
\* MongoDBManager.__init__: max_retries
MongoMaxRetries == 3

\* MarketUpdater.error_counts is kept up to the retry ceiling: the code reads
\* a count only to compare it with max_retries, so counts at and above the
\* ceiling are one value here.
MaxErrorCount == MaxRetries

Symbols == 1..NSymbols
Endpoints == 1..NEndpoints

VARIABLES
    \* TradingBot
    is_running,          \* self.is_running
    main_pc,             \* position of the thread that calls start()/stop()
    mon_pc,              \* monitoring thread (MonitoringService.run)
    trd_pc,              \* trading thread (TradingBot.trading_loop)
    upd_pc,              \* data-update thread (run_updates)
    \* MonitoringService
    mon_idx,             \* index of the endpoint in `for endpoint_config in ...`
    stop_event,          \* self.stop_event
    shutdown_complete,   \* self.shutdown_complete
    running,             \* self.running
    since_check,         \* now - self.last_check[e], capped at CheckInterval
    since_summary,       \* now - self.last_metrics_summary, capped
    since_started,       \* time since a check of e was last started, capped
    \* APIMonitor owned by the MonitoringService
    total_requests,
    failed_requests,
    consecutive_failures,
    metrics,             \* self.metrics: sequence of [type, value]
    \* trading_loop locals
    trd_idx,             \* index of the symbol in `for symbol in self.symbols`
    consecutive_errors,
    monitoring_metrics,  \* summary read at the start of the cycle
    \* run_updates locals
    upd_idx,
    \* MarketUpdater
    error_counts,
    upd_stop_event,
    upd_shutdown_complete,
    run_pc,              \* thread executing MarketUpdater.run
    run_idx,
    api_monitor_kind,    \* what self.api_monitor is: the APIMonitor or a stub
    \* the latest update_market_data call
    world,               \* what the call meets: "ok", "fault", "store_fault"
    upd_return,          \* its return value
    upd_stored,          \* number of records it stored
    \* a caller of the APIMonitor's methods
    api_call,            \* the call in progress, or the value last returned
    fault_run,           \* probe faults in a row since the last success
    \* get_alerts
    now,                 \* wall-clock time
    alerts,              \* the list last returned by get_alerts
    alerts_current,      \* no monitor state has changed since that call
    \* MongoDBManager (self.db)
    db,                  \* its constructor's position and the market_data collection
    \* threads no handle refers to any more
    orphans              \* kinds of loop whose earlier thread still runs

botVars == <<is_running, main_pc>>
svcVars == <<mon_pc, mon_idx, stop_event, shutdown_complete, running>>
clockVars == <<since_check, since_summary, since_started>>
apiVars == <<total_requests, failed_requests, consecutive_failures, metrics>>
trdVars == <<trd_pc, trd_idx, consecutive_errors, monitoring_metrics>>
updVars == <<upd_pc, upd_idx>>
muVars == <<error_counts, upd_stop_event, upd_shutdown_complete, api_monitor_kind>>
runVars == <<run_pc, run_idx>>
callVars == <<world, upd_return, upd_stored>>
probeVars == <<api_call, fault_run>>
alertVars == <<now, alerts, alerts_current>>
dbVars == <<db>>
thrVars == <<orphans>>

vars == <<botVars, svcVars, clockVars, apiVars, trdVars, updVars, muVars, runVars,
          callVars, probeVars, alertVars, dbVars, thrVars>>

Min(a, b) == IF a <= b THEN a ELSE b

\* threading.Thread.is_alive(): started and not yet returned.
Alive(pc) == pc \notin {"none", "done"}

\* ---------------------------------------------------------------- Init
InitMonitoringService ==
    /\ mon_idx = 1
    /\ stop_event = FALSE
    /\ shutdown_complete = FALSE
    /\ running = FALSE
    \* last_check[e] = now - check_interval: every endpoint is due at once
    /\ since_check = [e \in Endpoints |-> CheckInterval]
    \* last_metrics_summary = now
    /\ since_summary = 0
    \* no check has been started: as good as long ago
    /\ since_started = [e \in Endpoints |-> CheckInterval]

InitAPIMonitor ==
    /\ total_requests = 0
    /\ failed_requests = 0
    /\ consecutive_failures = 0
    /\ metrics = <<>>

\* No call of the monitor's methods has been made.
Idle == [op |-> "idle", response |-> "-", value |-> 0]

InitCalls ==
    /\ api_call = Idle
    /\ fault_run = 0
    /\ now = 0
    /\ alerts = <<>>
    /\ alerts_current = FALSE

\* MarketUpdater.__init__(symbols, ...): the events and the error counts.
InitMarketUpdaterFor(symbols) ==
    /\ error_counts = [s \in symbols |-> 0]
    /\ upd_stop_event = FALSE
    /\ upd_shutdown_complete = FALSE
    \* no update_market_data call has been made
    /\ world = "ok"
    /\ upd_return = FALSE
    /\ upd_stored = 0

\* The MarketUpdater a TradingBot builds: MarketUpdater(self.symbols, self.db)
InitMarketUpdater == InitMarketUpdaterFor(Symbols)

InitLocals ==
    /\ trd_idx = 1
    /\ consecutive_errors = 0
    /\ monitoring_metrics = [total_requests |-> 0, failed_requests |-> 0]
    /\ upd_idx = 1
    /\ run_idx = 1

\* MongoDBManager(): the constructor has connected at its first attempt and
\* set up the collections; market_data holds no document.
InitDatabase ==
    db = [pc |-> "initialized", retry_count |-> 0, attempts |-> 1,
          connected |-> TRUE, market_data |-> <<>>]

\* No thread runs yet.
InitThreads ==
    /\ is_running = FALSE
    /\ main_pc = "idle"
    /\ mon_pc = "none"
    /\ trd_pc = "none"
    /\ upd_pc = "none"
    /\ run_pc = "none"
    /\ orphans = {}

\* Everything is constructed and nothing runs yet.
InitConstructed ==
    /\ InitThreads
    /\ InitMonitoringService
    /\ InitAPIMonitor
    /\ InitCalls
    /\ InitMarketUpdater
    /\ InitLocals
    /\ InitDatabase

\* TradingBot.__init__: the MarketUpdater it builds holds the APIMonitor of
\* the source.
Init ==
    /\ InitConstructed
    /\ api_monitor_kind = "APIMonitor"

\* A MarketUpdater on its own: self.api_monitor is the APIMonitor of the
\* source, or a stand-in put in its place that reports the API's health.
InitUpdater ==
    /\ InitThreads
    /\ InitMonitoringService
    /\ InitAPIMonitor
    /\ InitCalls
    /\ InitMarketUpdaterFor(1..NUpdaterSymbols)
    /\ InitLocals
    /\ InitDatabase
    /\ api_monitor_kind \in {"APIMonitor", "stub"}

\* ------------------------------------------------------------ waiting
\* threading.Event.wait(timeout=5): returns once the event is set, or when
\* the timeout elapses with the event still unset.
EventWait(event, timed_out) == IF timed_out THEN ~event ELSE event

\* Faulty variant: join() without its timeout.
ThreadJoinNoTimeout(pc, timed_out) == ~timed_out /\ ~Alive(pc)

\* `if thread and thread.is_alive(): thread.join(timeout=5)`: returns at once
\* for a thread that is None or dead, when the thread ends, or at the timeout.
ThreadJoin(pc, timed_out) == IF timed_out THEN Alive(pc) ELSE ~Alive(pc)

\* -------------------------------------------------- TradingBot.start()
\* The caller starts a bot once; a second start() is outside this
\* specification.
NeverStarted == mon_pc = "none" /\ trd_pc = "none" /\ upd_pc = "none"

\* Faulty variant: start() launches the loops without setting the flag.
BotStartNoFlag ==
    /\ main_pc = "idle"
    /\ NeverStarted
    /\ main_pc' = "start_monitoring"
    /\ UNCHANGED <<is_running, svcVars, clockVars, apiVars, trdVars, updVars,
                   muVars, runVars, callVars, probeVars, alertVars, dbVars, thrVars>>

\* start(): self.is_running = True
BotStart ==
    /\ main_pc = "idle"
    /\ NeverStarted
    /\ is_running' = TRUE
    /\ main_pc' = "start_monitoring"
    /\ UNCHANGED <<svcVars, clockVars, apiVars, trdVars, updVars, muVars, runVars, callVars, probeVars, alertVars, dbVars, thrVars>>

\* self.<kind>_thread = threading.Thread(...): the handle is overwritten; a
\* thread it referred to that is still alive runs on with no handle to it.
Orphaned(pc, kind) == IF Alive(pc) THEN orphans \cup {kind} ELSE orphans

\* start_monitoring(): the monitoring thread is created and started.
StartMonitoring ==
    /\ main_pc = "start_monitoring"
    /\ orphans' = Orphaned(mon_pc, "monitoring")
    /\ mon_pc' = "begin"
    /\ main_pc' = "start_trading"
    /\ UNCHANGED <<is_running, mon_idx, stop_event, shutdown_complete, running,
                   clockVars, apiVars, trdVars, updVars, muVars, runVars, callVars, probeVars, alertVars, dbVars>>

\* start_trading(): the trading thread is created and started.
StartTrading ==
    /\ main_pc = "start_trading"
    /\ orphans' = Orphaned(trd_pc, "trading")
    /\ trd_pc' = "loop"
    /\ consecutive_errors' = 0
    /\ main_pc' = "start_data_updates"
    /\ UNCHANGED <<is_running, svcVars, clockVars, apiVars, trd_idx,
                   monitoring_metrics, updVars, muVars, runVars, callVars, probeVars, alertVars, dbVars>>

\* start_data_updates(): the data-update thread is created and started;
\* start() returns.
StartDataUpdates ==
    /\ main_pc = "start_data_updates"
    /\ orphans' = Orphaned(upd_pc, "data update")
    /\ upd_pc' = "loop"
    /\ main_pc' = "idle"
    /\ UNCHANGED <<is_running, svcVars, clockVars, apiVars, trdVars, upd_idx,
                   muVars, runVars, callVars, probeVars, alertVars, dbVars>>

\* --------------------------------------------------- TradingBot.stop()
\* Faulty variant: stop() leaves the flag set.
BotStopKeepsFlag ==
    /\ main_pc = "idle"
    /\ main_pc' = "stop_monitoring"
    /\ UNCHANGED <<is_running, svcVars, clockVars, apiVars, trdVars, updVars,
                   muVars, runVars, callVars, probeVars, alertVars, dbVars, thrVars>>

\* stop(): self.is_running = False
BotStop ==
    /\ main_pc = "idle"
    /\ is_running' = FALSE
    /\ main_pc' = "stop_monitoring"
    /\ UNCHANGED <<svcVars, clockVars, apiVars, trdVars, updVars, muVars, runVars, callVars, probeVars, alertVars, dbVars, thrVars>>

\* MonitoringService.stop(): self.stop_event.set()
MonitoringServiceStopSet(from, to) ==
    /\ main_pc = from
    /\ stop_event' = TRUE
    /\ main_pc' = to
    /\ UNCHANGED <<is_running, mon_pc, mon_idx, shutdown_complete, running,
                   clockVars, apiVars, trdVars, updVars, muVars, runVars, callVars, probeVars, alertVars, dbVars, thrVars>>

\* MonitoringService.stop(): self.shutdown_complete.wait(timeout=5); the
\* outcome is only logged.
MonitoringServiceStopWait(from, to) ==
    /\ main_pc = from
    /\ \E timed_out \in BOOLEAN : EventWait(shutdown_complete, timed_out)
    /\ main_pc' = to
    /\ UNCHANGED <<is_running, svcVars, clockVars, apiVars, trdVars, updVars,
                   muVars, runVars, callVars, probeVars, alertVars, dbVars, thrVars>>

\* MarketUpdater.stop(): self.stop_event.set()
MarketUpdaterStopSet(from, to) ==
    /\ main_pc = from
    /\ upd_stop_event' = TRUE
    /\ main_pc' = to
    /\ UNCHANGED <<is_running, svcVars, clockVars, apiVars, trdVars, updVars,
                   error_counts, upd_shutdown_complete, api_monitor_kind, runVars, callVars, probeVars, alertVars, dbVars, thrVars>>

\* MarketUpdater.stop(): self.shutdown_complete.wait(timeout=5)
MarketUpdaterStopWait(from, to) ==
    /\ main_pc = from
    /\ \E timed_out \in BOOLEAN : EventWait(upd_shutdown_complete, timed_out)
    /\ main_pc' = to
    /\ UNCHANGED <<is_running, svcVars, clockVars, apiVars, trdVars, updVars,
                   muVars, runVars, callVars, probeVars, alertVars, dbVars, thrVars>>

\* stop(): self.monitoring_service.stop()
StopMonitoringService ==
    MonitoringServiceStopSet("stop_monitoring", "wait_monitoring")

WaitMonitoringService ==
    MonitoringServiceStopWait("wait_monitoring", "stop_updater")

\* stop(): self.data_updater.stop()
StopUpdater == MarketUpdaterStopSet("stop_updater", "wait_updater")

WaitUpdater == MarketUpdaterStopWait("wait_updater", "join_monitoring")

\* stop(): the three joins, in the order monitoring, trading, data update.
JoinMonitoring ==
    /\ main_pc = "join_monitoring"
    /\ \E timed_out \in BOOLEAN : ThreadJoin(mon_pc, timed_out)
    /\ main_pc' = "join_trading"
    /\ UNCHANGED <<is_running, svcVars, clockVars, apiVars, trdVars, updVars,
                   muVars, runVars, callVars, probeVars, alertVars, dbVars, thrVars>>

JoinTrading ==
    /\ main_pc = "join_trading"
    /\ \E timed_out \in BOOLEAN : ThreadJoin(trd_pc, timed_out)
    /\ main_pc' = "join_data_update"
    /\ UNCHANGED <<is_running, svcVars, clockVars, apiVars, trdVars, updVars,
                   muVars, runVars, callVars, probeVars, alertVars, dbVars, thrVars>>

\* the last join; stop() returns.
JoinDataUpdate ==
    /\ main_pc = "join_data_update"
    /\ \E timed_out \in BOOLEAN : ThreadJoin(upd_pc, timed_out)
    /\ main_pc' = "idle"
    /\ UNCHANGED <<is_running, svcVars, clockVars, apiVars, trdVars, updVars,
                   muVars, runVars, callVars, probeVars, alertVars, dbVars, thrVars>>

\* The steps of stop() after its first.
StopStep ==
    \/ StopMonitoringService
    \/ WaitMonitoringService
    \/ StopUpdater
    \/ WaitUpdater
    \/ JoinMonitoring
    \/ JoinTrading
    \/ JoinDataUpdate

InStop == main_pc \in {"stop_monitoring", "wait_monitoring", "stop_updater",
                       "wait_updater", "join_monitoring", "join_trading",
                       "join_data_update"}

\* ------------------------------------------------------------- clock
\* One unit of wall-clock time passes.
Tick ==
    /\ since_check' = [e \in Endpoints |-> Min(since_check[e] + 1, CheckInterval)]
    /\ since_started' = [e \in Endpoints |-> Min(since_started[e] + 1, CheckInterval)]
    /\ since_summary' = Min(since_summary + 1, SummaryInterval)
    /\ UNCHANGED <<botVars, svcVars, apiVars, trdVars, updVars, muVars, runVars, callVars, probeVars, alertVars, dbVars, thrVars>>

\* ------------------------------------------- MonitoringService.run()
\* should_check_endpoint: (now - self.last_check[endpoint]) >= check_interval
EndpointDue(e) == since_check[e] >= CheckInterval

\* Faulty variant: last_check is not advanced.
MarkCheckedNot(e) == since_check

\* should_check_endpoint: self.last_check[endpoint] = now
MarkChecked(e) == [since_check EXCEPT ![e] = 0]

\* should_print_metrics_summary: elapsed >= self.metrics_summary_interval
SummaryDue == since_summary >= SummaryInterval

\* run(): self.running = True
MonBegin ==
    /\ mon_pc = "begin"
    /\ running' = TRUE
    /\ mon_pc' = "loop"
    /\ UNCHANGED <<botVars, mon_idx, stop_event, shutdown_complete, clockVars,
                   apiVars, trdVars, updVars, muVars, runVars, callVars, probeVars, alertVars, dbVars, thrVars>>

\* while not self.stop_event.is_set(): the test made after the sleep that
\* ends a tick, the 1 s one or the 5 s one of the `except`.
MonLoopHead ==
    /\ mon_pc \in {"loop", "backoff"}
    /\ IF stop_event
       THEN mon_pc' = "finally" /\ mon_idx' = mon_idx
       ELSE mon_pc' = "endpoints" /\ mon_idx' = 1
    /\ UNCHANGED <<botVars, stop_event, shutdown_complete, running, clockVars,
                   apiVars, trdVars, updVars, muVars, runVars, callVars, probeVars, alertVars, dbVars, thrVars>>

\* Faulty variant: the endpoint loop does not test the stop signal.
MonNextEndpointNoStopTest ==
    /\ mon_pc = "endpoints"
    /\ mon_pc' = IF mon_idx > NEndpoints THEN "alerts" ELSE "decide"
    /\ UNCHANGED <<botVars, mon_idx, stop_event, shutdown_complete, running,
                   clockVars, apiVars, trdVars, updVars, muVars, runVars, callVars, probeVars, alertVars, dbVars, thrVars>>

\* for endpoint_config in self.endpoints: if self.stop_event.is_set(): break
MonNextEndpoint ==
    /\ mon_pc = "endpoints"
    /\ mon_pc' = IF mon_idx > NEndpoints \/ stop_event THEN "alerts" ELSE "decide"
    /\ UNCHANGED <<botVars, mon_idx, stop_event, shutdown_complete, running,
                   clockVars, apiVars, trdVars, updVars, muVars, runVars, callVars, probeVars, alertVars, dbVars, thrVars>>

\* if self.should_check_endpoint(endpoint): the decision advances last_check
\* when the endpoint is due; an endpoint not due is passed over.
MonDecide ==
    /\ mon_pc = "decide"
    /\ IF EndpointDue(mon_idx)
       THEN /\ since_check' = MarkChecked(mon_idx)
            /\ since_started' = [since_started EXCEPT ![mon_idx] = 0]
            /\ mon_pc' = "check"
            /\ UNCHANGED <<mon_idx, since_summary>>
       ELSE /\ mon_idx' = mon_idx + 1
            /\ mon_pc' = "endpoints"
            /\ UNCHANGED clockVars
    /\ UNCHANGED <<botVars, stop_event, shutdown_complete, running, apiVars,
                   trdVars, updVars, muVars, runVars, callVars, probeVars, alertVars, dbVars, thrVars>>

\* method = getattr(self.monitor, endpoint_config["method"]); method(**params):
\* APIMonitor.get_ticker / get_order_book / get_klines fetch from the exchange
\* and return or raise; neither touches the monitor's counters or its metric
\* log, and the inner `except` swallows the fault.
MonCheck ==
    /\ mon_pc = "check"
    /\ \E raised \in BOOLEAN :
          /\ mon_pc' = "endpoints"
          /\ mon_idx' = mon_idx + 1
    /\ UNCHANGED <<botVars, stop_event, shutdown_complete, running, clockVars,
                   apiVars, trdVars, updVars, muVars, runVars, callVars, probeVars, alertVars, dbVars, thrVars>>

\* get_metrics_summary: the counters the trading loop reads; error_rate is
\* failed_requests / total_requests if total_requests > 0 else 0, kept as
\* the two integers.
GetMetricsSummary ==
    [total_requests |-> total_requests, failed_requests |-> failed_requests]

\* The keys of the dict get_metrics_summary returns: the six it always has
\* and the three latency statistics.
SummaryKeys ==
    {"total_requests", "failed_requests", "error_rate", "consecutive_failures",
     "alerts", "last_update", "avg_latency", "min_latency", "max_latency"}

\* print_metrics_summary: `for endpoint, data in metrics.items()` reads
\* data['avg_latency'], data['success_rate'] and data['error_count'] of every
\* value; the values under the keys of get_metrics_summary are numbers, a
\* list and a string, and indexing one of them by a string raises.
PrintMetricsSummaryRaises(keys) == keys \cap SummaryKeys # {}

\* check_alerts(); then should_print_metrics_summary(), which resets the timer
\* when due, and print_metrics_summary(); a tick that ends well sleeps 1 s,
\* one in which print_metrics_summary raises goes through the outer `except`
\* and its 5 s sleep.
MonAlerts ==
    /\ mon_pc = "alerts"
    /\ since_summary' = IF SummaryDue THEN 0 ELSE since_summary
    /\ mon_pc' = IF SummaryDue /\ PrintMetricsSummaryRaises(DOMAIN GetMetricsSummary)
                 THEN "backoff" ELSE "loop"
    /\ UNCHANGED <<botVars, mon_idx, stop_event, shutdown_complete, running,
                   since_check, since_started, apiVars, trdVars, updVars,
                   muVars, runVars, callVars, probeVars, alertVars, dbVars, thrVars>>

\* Faulty variant: the acknowledgment is not given.
MonFinallyNoAck ==
    /\ mon_pc = "finally"
    /\ running' = FALSE
    /\ mon_pc' = "done"
    /\ UNCHANGED <<botVars, mon_idx, stop_event, shutdown_complete, clockVars,
                   apiVars, trdVars, updVars, muVars, runVars, callVars, probeVars, alertVars, dbVars, thrVars>>

\* finally: self.running = False; self.shutdown_complete.set()
MonFinally ==
    /\ mon_pc = "finally"
    /\ running' = FALSE
    /\ shutdown_complete' = TRUE
    /\ mon_pc' = "done"
    /\ UNCHANGED <<botVars, mon_idx, stop_event, clockVars, apiVars, trdVars,
                   updVars, muVars, runVars, callVars, probeVars, alertVars, dbVars, thrVars>>

MonStep ==
    \/ MonBegin
    \/ MonLoopHead
    \/ MonNextEndpoint
    \/ MonDecide
    \/ MonCheck
    \/ MonAlerts
    \/ MonFinally

\* ------------------------------------------------------------ APIMonitor
\* record_metric: self.metrics.append(metric); the snapshot write that
\* follows catches its own faults and changes nothing of the monitor.
RecordMetric(log, type, value) == Append(log, [type |-> type, value |-> value])

\* is_valid_response and the `except`: a call ends well only on a response
\* that is a dict without an error code; "invalid" is any other response,
\* "raised" a fault raised by the call (or, with a client, a method name that
\* measure_latency does not know).
Responses == {"valid", "invalid", "raised"}

\* check_availability: consecutive_failures = 0 on success, += 1 on an
\* unsuccessful response and in the `except`; returns the success.
CheckAvailability(cf, success) == IF success THEN 0 ELSE cf + 1

\* Faulty variant: a successful measurement leaves the failure count alone.
MeasureLatencyNoReset(cf, latency) == IF latency # 0 THEN cf ELSE cf + 1

\* measure_latency, the counter: 0 after a valid response, += 1 otherwise
\* (latency = 0 stands for None: an invalid response or a raised fault).
MeasureLatency(cf, latency) == IF latency # 0 THEN 0 ELSE cf + 1

\* measure_latency, the log: record_metric('latency', latency, endpoint) on a
\* valid response only.
MeasureLatencyLog(log, latency) ==
    IF latency # 0 THEN RecordMetric(log, "latency", latency) ELSE log

\* Faulty variant: an unavailable endpoint is counted as a failed request.
MonitorEndpointCountsUnavailable(available, latency) ==
    IF ~available
    THEN /\ consecutive_failures' = CheckAvailability(consecutive_failures, FALSE)
         /\ failed_requests' = failed_requests + 1
         /\ UNCHANGED <<total_requests, metrics>>
    ELSE /\ total_requests' = total_requests + 1
         /\ consecutive_failures' =
                MeasureLatency(CheckAvailability(consecutive_failures, TRUE), latency)
         /\ metrics' = RecordMetric(MeasureLatencyLog(metrics, latency),
                                    "availability", IF latency # 0 THEN 1 ELSE 0)
         /\ failed_requests' = IF latency # 0 THEN failed_requests
                               ELSE failed_requests + 1

\* Faulty variant: a failed measurement is not counted as a failed request.
MonitorEndpointNotCountingFailure(available, latency) ==
    IF ~available
    THEN /\ consecutive_failures' = CheckAvailability(consecutive_failures, FALSE)
         /\ UNCHANGED <<total_requests, failed_requests, metrics>>
    ELSE /\ total_requests' = total_requests + 1
         /\ consecutive_failures' =
                MeasureLatency(CheckAvailability(consecutive_failures, TRUE), latency)
         /\ metrics' = RecordMetric(MeasureLatencyLog(metrics, latency),
                                    "availability", IF latency # 0 THEN 1 ELSE 0)
         /\ failed_requests' = failed_requests

\* Faulty variant: the latency is measured whether or not the endpoint is
\* available.
MonitorEndpointAlwaysMeasuring(available, latency) ==
    /\ total_requests' = total_requests + 1
    /\ consecutive_failures' =
           MeasureLatency(CheckAvailability(consecutive_failures, available), latency)
    /\ metrics' = RecordMetric(MeasureLatencyLog(metrics, latency),
                               "availability", IF latency # 0 THEN 1 ELSE 0)
    /\ failed_requests' = IF latency # 0 THEN failed_requests
                          ELSE failed_requests + 1

\* monitor_endpoint(endpoint, method): check_availability first (a failure
\* increments consecutive_failures and ends the call), then total_requests,
\* then measure_latency (latency = 0 stands for None: an invalid response or a
\* raised fault) and the availability metric.
MonitorEndpoint(available, latency) ==
    IF ~available
    THEN /\ consecutive_failures' = CheckAvailability(consecutive_failures, FALSE)
         /\ UNCHANGED <<total_requests, failed_requests, metrics>>
    ELSE /\ total_requests' = total_requests + 1
         /\ consecutive_failures' =
                MeasureLatency(CheckAvailability(consecutive_failures, TRUE), latency)
         /\ metrics' = RecordMetric(MeasureLatencyLog(metrics, latency),
                                    "availability", IF latency # 0 THEN 1 ELSE 0)
         /\ failed_requests' = IF latency # 0 THEN failed_requests
                               ELSE failed_requests + 1

\* The run of probe faults after a monitor_endpoint call: the availability
\* probe, and after a success of it the latency probe.
FaultRunAfterMonitorEndpoint(run, available, latency) ==
    IF ~available THEN run + 1 ELSE IF latency # 0 THEN 0 ELSE 1

\* Some caller outside the loops probes an endpoint through the monitor.
ClientMonitorEndpoint ==
    /\ total_requests < MaxRequests
    /\ consecutive_failures < MaxFailures
    /\ \E available \in BOOLEAN, latency \in 0..MaxLatency :
          /\ MonitorEndpoint(available, latency)
          /\ fault_run' = FaultRunAfterMonitorEndpoint(fault_run, available, latency)
    /\ alerts_current' = FALSE
    /\ UNCHANGED <<botVars, svcVars, clockVars, trdVars, updVars, muVars, runVars,
                   callVars, api_call, now, alerts, dbVars, thrVars>>

\* ---------------------------------------------- TradingBot.trading_loop()
\* Faulty variant: the gate compares with 0.5.
TradingPausedAtHalf(m) ==
    m.total_requests > 0 /\ m.failed_requests * 2 > m.total_requests

\* monitoring_metrics.get('error_rate', 0) > 0.1
TradingPaused(m) ==
    m.total_requests > 0 /\ m.failed_requests * 10 > m.total_requests

\* Faulty variant: the first error already ends the loop.
CountErrorStoppingAtOnce(next_pc, break_pc) ==
    /\ consecutive_errors' = consecutive_errors + 1
    /\ is_running' = FALSE
    /\ trd_pc' = break_pc

\* consecutive_errors += 1; if consecutive_errors >= max_consecutive_errors:
\* self.is_running = False; break
CountError(next_pc, break_pc) ==
    /\ consecutive_errors' = consecutive_errors + 1
    /\ IF consecutive_errors + 1 >= MaxConsecutiveErrors
       THEN is_running' = FALSE /\ trd_pc' = break_pc
       ELSE is_running' = is_running /\ trd_pc' = next_pc

\* while self.is_running:
TrdLoopHead ==
    /\ trd_pc = "loop"
    /\ trd_pc' = IF is_running THEN "summary" ELSE "done"
    /\ UNCHANGED <<botVars, svcVars, clockVars, apiVars, trd_idx,
                   consecutive_errors, monitoring_metrics, updVars, muVars,
                   runVars, callVars, probeVars, alertVars, dbVars, thrVars>>

\* Faulty variant: reading the summary counts as a request of the monitor.
TrdReadSummaryCounting ==
    /\ trd_pc = "summary"
    /\ total_requests < MaxRequests
    /\ total_requests' = total_requests + 1
    /\ monitoring_metrics' = GetMetricsSummary
    /\ IF TradingPaused(GetMetricsSummary)
       THEN trd_pc' = "loop" /\ trd_idx' = trd_idx
       ELSE trd_pc' = "symbols" /\ trd_idx' = 1
    /\ UNCHANGED <<botVars, svcVars, clockVars, failed_requests,
                   consecutive_failures, metrics, consecutive_errors,
                   updVars, muVars, runVars, callVars, probeVars, alertVars, dbVars, thrVars>>

\* monitoring_metrics = self.monitoring_service.monitor.get_metrics_summary():
\* the call raises into the outer `except`, or returns the summary; then
\* `if error_rate > 0.1: sleep(1); continue`, else on to the symbols.
TrdReadSummary ==
    /\ trd_pc = "summary"
    /\ \E fault \in BOOLEAN :
          IF fault
          THEN /\ trd_pc' = "cycle_except"
               /\ UNCHANGED <<monitoring_metrics, trd_idx>>
          ELSE /\ monitoring_metrics' = GetMetricsSummary
               /\ IF TradingPaused(GetMetricsSummary)
                  THEN trd_pc' = "loop" /\ trd_idx' = trd_idx
                  ELSE trd_pc' = "symbols" /\ trd_idx' = 1
    /\ UNCHANGED <<botVars, svcVars, clockVars, apiVars, consecutive_errors,
                   updVars, muVars, runVars, callVars, probeVars, alertVars, dbVars, thrVars>>

\* the outer `except`: count the fault; at the ceiling the loop ends,
\* otherwise sleep(1) and the next cycle.
TrdCycleExcept ==
    /\ trd_pc = "cycle_except"
    /\ CountError("loop", "done")
    /\ UNCHANGED <<main_pc, svcVars, clockVars, apiVars, trd_idx,
                   monitoring_metrics, updVars, muVars, runVars, callVars, probeVars, alertVars, dbVars, thrVars>>

\* for symbol in self.symbols: if not self.is_running: break
\* (after the loop or the break: sleep(1) and the next cycle)
TrdNextSymbol ==
    /\ trd_pc = "symbols"
    /\ trd_pc' = IF trd_idx > NSymbols \/ ~is_running THEN "loop" ELSE "fetch"
    /\ UNCHANGED <<botVars, svcVars, clockVars, apiVars, trd_idx,
                   consecutive_errors, monitoring_metrics, updVars, muVars,
                   runVars, callVars, probeVars, alertVars, dbVars, thrVars>>

\* self.db.get_latest_market_data(symbol, limit=1) and the two shape checks:
\* the call raises, or the record is missing or malformed (`continue`), or it
\* is handed to process_market_data.
TrdFetch ==
    /\ trd_pc = "fetch"
    /\ \E outcome \in {"raised", "empty", "malformed", "ok"} :
          trd_pc' = CASE outcome = "raised" -> "except"
                      [] outcome = "ok" -> "process"
                      [] OTHER -> "skip"
    /\ UNCHANGED <<botVars, svcVars, clockVars, apiVars, trd_idx,
                   consecutive_errors, monitoring_metrics, updVars, muVars,
                   runVars, callVars, probeVars, alertVars, dbVars, thrVars>>

\* `continue` after the warning: the counter is not touched.
TrdSkip ==
    /\ trd_pc = "skip"
    /\ trd_idx' = trd_idx + 1
    /\ trd_pc' = "symbols"
    /\ UNCHANGED <<botVars, svcVars, clockVars, apiVars, consecutive_errors,
                   monitoring_metrics, updVars, muVars, runVars, callVars, probeVars, alertVars, dbVars, thrVars>>

\* Faulty variant: a processed symbol does not reset the counter.
TrdProcessNoReset ==
    /\ trd_pc = "process"
    /\ trd_idx' = trd_idx + 1
    /\ trd_pc' = "symbols"
    /\ UNCHANGED <<botVars, svcVars, clockVars, apiVars, consecutive_errors,
                   monitoring_metrics, updVars, muVars, runVars, callVars, probeVars, alertVars, dbVars, thrVars>>

\* process_market_data(latest_data) (it catches its own faults);
\* consecutive_errors = 0
TrdProcess ==
    /\ trd_pc = "process"
    /\ consecutive_errors' = 0
    /\ trd_idx' = trd_idx + 1
    /\ trd_pc' = "symbols"
    /\ UNCHANGED <<botVars, svcVars, clockVars, apiVars, monitoring_metrics,
                   updVars, muVars, runVars, callVars, probeVars, alertVars, dbVars, thrVars>>

\* the inner `except`: count the fault; at the ceiling clear is_running and
\* break out of the symbol loop (sleep(1), then the `while` test ends the loop).
TrdExcept ==
    /\ trd_pc = "except"
    /\ CountError("symbols", "loop")
    /\ trd_idx' = IF consecutive_errors + 1 >= MaxConsecutiveErrors
                  THEN trd_idx ELSE trd_idx + 1
    /\ UNCHANGED <<main_pc, svcVars, clockVars, apiVars, monitoring_metrics,
                   updVars, muVars, runVars, callVars, probeVars, alertVars, dbVars, thrVars>>

TrdStep ==
    \/ TrdLoopHead
    \/ TrdReadSummary
    \/ TrdCycleExcept
    \/ TrdNextSymbol
    \/ TrdFetch
    \/ TrdSkip
    \/ TrdProcess
    \/ TrdExcept

\* --------------------------------- MarketUpdater.update_market_data()
\* How a call can end: with the APIMonitor of the source as self.api_monitor,
\* check_api_health() is called without its api_endpoint argument and raises
\* at once; with a stand-in that reports health, the call succeeds, faults
\* before the store, or faults in the store.
UpdateOutcomes ==
    IF api_monitor_kind = "APIMonitor"
    THEN {"fault"}
    ELSE {"ok", "fault", "store_fault"}

\* What a call can meet: the exchange healthy and every collaborator call
\* succeeding ("ok"), a fault before the store call (the health check or a
\* collector call), or a fault raised by the store call.
Worlds == {"ok", "fault", "store_fault"}

\* How the call ends in world w.
UpdateOutcome(w) == IF api_monitor_kind = "APIMonitor" THEN "fault" ELSE w

\* Faulty variant: a fault is counted against every symbol.
UpdateMarketDataCountsAll(s, outcome) ==
    /\ error_counts' =
          IF outcome = "ok"
          THEN [error_counts EXCEPT ![s] = 0]
          ELSE [t \in DOMAIN error_counts |-> Min(error_counts[t] + 1, MaxErrorCount)]
    /\ upd_return' = (outcome = "ok")
    /\ upd_stored' = IF outcome = "ok" THEN 1 ELSE 0

\* update_market_data(symbol): on success db.store_market_data has stored the
\* record, self.error_counts[symbol] = 0, return True; the `except` does
\* self.error_counts[symbol] += 1 and returns False. A store call that
\* raises may or may not have written the record.
UpdateMarketData(s, outcome) ==
    /\ error_counts' =
          [error_counts EXCEPT
              ![s] = IF outcome = "ok" THEN 0 ELSE Min(@ + 1, MaxErrorCount)]
    /\ upd_return' = (outcome = "ok")
    /\ upd_stored' \in IF outcome = "ok" THEN {1}
                      ELSE IF outcome = "store_fault" THEN {0, 1}
                      ELSE {0}

\* ------------------------------------ TradingBot.start_data_updates()
\* while self.is_running: if current_time - last_update >= update_interval
\* (the clock decides: due or not), else sleep(1).
UpdLoopHead ==
    /\ upd_pc = "loop"
    /\ IF ~is_running
       THEN upd_pc' = "done" /\ upd_idx' = upd_idx
       ELSE \E due \in BOOLEAN :
               IF due
               THEN upd_pc' = "symbols" /\ upd_idx' = 1
               ELSE upd_pc' = "loop" /\ upd_idx' = upd_idx
    /\ UNCHANGED <<botVars, svcVars, clockVars, apiVars, trdVars, muVars, runVars, callVars, probeVars, alertVars, dbVars, thrVars>>

\* for symbol in self.symbols: if not self.is_running: break;
\* self.data_updater.update_market_data(symbol)
\* (after the loop or the break: last_update = current_time, sleep(1))
UpdNextSymbol ==
    /\ upd_pc = "symbols"
    /\ IF upd_idx > NSymbols \/ ~is_running
       THEN upd_pc' = "loop"
            /\ UNCHANGED <<upd_idx, error_counts, upd_return, upd_stored>>
       ELSE /\ \E outcome \in UpdateOutcomes : UpdateMarketData(upd_idx, outcome)
            /\ upd_idx' = upd_idx + 1
            /\ upd_pc' = "symbols"
    /\ UNCHANGED <<botVars, svcVars, clockVars, apiVars, trdVars,
                   upd_stop_event, upd_shutdown_complete, api_monitor_kind,
                   runVars, world, probeVars, alertVars, dbVars, thrVars>>

UpdStep ==
    \/ UpdLoopHead
    \/ UpdNextSymbol

\* ------------------------------------------------------- the bot
StartStep ==
    \/ BotStart
    \/ StartMonitoring
    \/ StartTrading
    \/ StartDataUpdates

MainStep ==
    \/ StartStep
    \/ BotStop
    \/ StopStep

\* The bot: the caller of start() and stop() and the three loop threads.
Next ==
    \/ MainStep
    \/ MonStep
    \/ TrdStep
    \/ UpdStep

Spec == Init /\ [][Next]_vars

\* Fairness: the thread inside stop() keeps running; nothing is assumed of
\* the loop threads, which may sit in a collaborator call for ever.
StopFairSpec == Spec /\ WF_vars(StopStep)

\* Fairness: every thread keeps running and every collaborator call returns.
FairSpec ==
    Spec /\ WF_vars(StopStep) /\ WF_vars(MonStep) /\ WF_vars(TrdStep)
         /\ WF_vars(UpdStep)

Started == ~NeverStarted
AllLoopsDone == mon_pc = "done" /\ trd_pc = "done" /\ upd_pc = "done"

\* The trading thread is inside get_latest_market_data although is_running
\* is already False: stop() was called while the call was in progress.
TradingBlockedInCall == trd_pc = "fetch" /\ ~is_running

\* C1: stop() always returns, whatever the loops do (never started, running,
\* already exited, blocked inside a call), and is_running is False at the
\* step that returns.
StopAlwaysReturns ==
    /\ InStop ~> (main_pc = "idle")
    /\ [][main_pc = "join_data_update" /\ main_pc' = "idle" => ~is_running']_vars

\* stop() has returned although the trading thread is still inside a call.
StopReturnedWhileBlocked ==
    main_pc = "idle" /\ upd_stop_event /\ TradingBlockedInCall

\* C2: after stop() on a started bot, all three loops eventually terminate,
\* provided the threads keep running and their calls return.
LoopsTerminateAfterStop ==
    (InStop /\ Started) ~> AllLoopsDone

\* stop() has returned on a started bot and every loop has ended.
AllStoppedAfterStop ==
    main_pc = "idle" /\ stop_event /\ upd_stop_event /\ AllLoopsDone

StartReturns == main_pc = "start_data_updates" /\ main_pc' = "idle"
HandlesSet == mon_pc # "none" /\ trd_pc # "none" /\ upd_pc # "none"

LoopsFairSpec ==
    Spec /\ WF_vars(MonStep) /\ WF_vars(TrdStep) /\ WF_vars(UpdStep)

StopCalled == InStop \/ stop_event

\* C5: once the trading loop has reached its error ceiling on a started bot,
\* all three loops terminate without any stop() call.
EscalationStopsAllLoops ==
    (main_pc = "idle" /\ Started /\ ~StopCalled
        /\ consecutive_errors >= MaxConsecutiveErrors)
    ~> (AllLoopsDone \/ StopCalled)

\* ------------------------------------------ the trading loop's view
\* The trading loop with everything it can observe: the caller of start()
\* and stop(), and a client that probes endpoints through the bot's monitor.
\* The monitoring and data-update threads write nothing the trading loop
\* reads; here they are started and take no step.
NextTrading ==
    \/ MainStep
    \/ TrdStep
    \/ ClientMonitorEndpoint

SpecTrading == Init /\ [][NextTrading]_vars

TrdLeaves(pcs) == trd_pc \in pcs /\ trd_pc' # trd_pc

\* C4: the trading loop clears is_running itself only on reaching 3
\* consecutive errors; a raising symbol and a cycle-level fault each add one,
\* a processed symbol resets the counter, a skipped symbol and every other
\* step of the loop leave it unchanged.
TradingSelfStopRule ==
    [][/\ (is_running /\ ~is_running' /\ main_pc' = main_pc)
            => consecutive_errors' = MaxConsecutiveErrors
       /\ (consecutive_errors' < MaxConsecutiveErrors /\ main_pc' = main_pc)
            => is_running' = is_running
       /\ TrdLeaves({"except", "cycle_except"})
            => consecutive_errors' = consecutive_errors + 1
       /\ TrdLeaves({"process"}) => consecutive_errors' = 0
       /\ TrdLeaves({"skip", "loop", "summary", "symbols", "fetch"})
            => consecutive_errors' = consecutive_errors]_vars

\* The loop has stopped itself at the ceiling, with no stop() call.
TradingSelfStopped ==
    /\ trd_pc = "done"
    /\ consecutive_errors = MaxConsecutiveErrors
    /\ ~is_running
    /\ main_pc = "idle"
    /\ ~stop_event

\* C6: a cycle whose summary shows error_rate > 0.1 is skipped: the loop goes
\* straight to its next cycle, fetching no symbol, the counter unchanged.
HighErrorRateSkipsCycle ==
    [][(/\ trd_pc = "summary"
        /\ trd_pc' \notin {"summary", "cycle_except"}
        /\ total_requests > 0
        /\ failed_requests * 10 > total_requests)
       => (trd_pc' = "loop" /\ consecutive_errors' = consecutive_errors)]_vars

\* A cycle has just been skipped on a summary with error_rate > 0.1.
CycleSkipped ==
    /\ trd_pc = "loop"
    /\ is_running
    /\ monitoring_metrics.total_requests > 0
    /\ monitoring_metrics.failed_requests * 10 > monitoring_metrics.total_requests

\* ------------------------------------ a MonitoringService on its own
\* run() is started on a thread of its own.
SvcRun ==
    /\ mon_pc = "none"
    /\ mon_pc' = "begin"
    /\ UNCHANGED <<botVars, mon_idx, stop_event, shutdown_complete, running,
                   clockVars, apiVars, trdVars, updVars, muVars, runVars, callVars, probeVars, alertVars, dbVars, thrVars>>

\* MonitoringService.stop() called from another thread.
SvcStopSet == MonitoringServiceStopSet("idle", "svc_wait")

SvcStopWait == MonitoringServiceStopWait("svc_wait", "idle")

\* except KeyboardInterrupt: an interrupt delivered inside run() leads to
\* the `finally` from wherever the loop is.
MonInterrupt ==
    /\ mon_pc \in {"begin", "loop", "endpoints", "decide", "check", "alerts",
                   "backoff"}
    /\ mon_pc' = "finally"
    /\ UNCHANGED <<botVars, mon_idx, stop_event, shutdown_complete, running,
                   clockVars, apiVars, trdVars, updVars, muVars, runVars, callVars, probeVars, alertVars, dbVars, thrVars>>

NextMonitoring ==
    \/ SvcRun
    \/ SvcStopSet
    \/ SvcStopWait
    \/ MonStep
    \/ MonInterrupt
    \/ Tick

SpecMonitoring == Init /\ [][NextMonitoring]_vars

\* Fairness: the loop thread and the thread inside stop() keep running.
FairMonitoringSpec ==
    SpecMonitoring /\ WF_vars(MonStep) /\ WF_vars(SvcStopWait)

CheckStarts == mon_pc # "check" /\ mon_pc' = "check"

\* C7: a check of an endpoint is started only when at least check_interval
\* has passed since the previous check of it was started, and starting it
\* advances last_check whatever the check then does.
ChecksRespectInterval ==
    [][CheckStarts
       => /\ since_started[mon_idx] >= CheckInterval
          /\ since_check'[mon_idx] = 0]_vars

\* Endpoint 1 is being checked again: endpoint 2, which comes after it in a
\* pass, has already been checked less than check_interval ago.
RecheckInProgress ==
    mon_pc = "check" /\ mon_idx = 1 /\ since_started[2] < CheckInterval

\* C8: every check of a due endpoint is reflected in the monitor's state.
DueCheckReflectedInMonitor ==
    [][(mon_pc = "check" /\ mon_pc' = "endpoints")
       => <<total_requests, failed_requests, consecutive_failures, metrics>>'
            # <<total_requests, failed_requests, consecutive_failures, metrics>>]_vars

\* C9 as stated: once the stop signal is set, run() starts no further
\* endpoint check.
NoCheckStartsAfterStopSignal == [][stop_event => ~CheckStarts]_vars

\* C9: once the stop signal is set, no stop test of run() lets an endpoint
\* through (only a check whose stop test had passed before may still start)
\* and no further tick begins; run() then ends; however run() ends, running
\* is False and shutdown_complete is set; stop() returns.
StopSignalAcknowledged ==
    /\ [][stop_event => (/\ mon_pc = "endpoints" => mon_pc' \in {"endpoints", "alerts", "finally"}
                         /\ mon_pc = "loop" => mon_pc' \in {"loop", "finally"}
                         /\ CheckStarts => mon_pc = "decide")]_vars
    /\ (stop_event /\ Alive(mon_pc)) ~> (mon_pc = "done")
    /\ [](mon_pc = "done" => (shutdown_complete /\ ~running))
    /\ (main_pc = "svc_wait") ~> (main_pc = "idle")

\* stop() has returned after the loop, stopped during a check, acknowledged.
StoppedAndAcknowledged ==
    /\ main_pc = "idle"
    /\ stop_event
    /\ mon_pc = "done"
    /\ shutdown_complete
    /\ \E e \in Endpoints : since_started[e] < CheckInterval

\* ---------------------------------------------- MarketUpdater.run()
\* run() is started on a thread of its own.
UpdaterRun ==
    /\ run_pc = "none"
    /\ run_pc' = "loop"
    /\ UNCHANGED <<botVars, svcVars, clockVars, apiVars, trdVars, updVars,
                   muVars, run_idx, callVars, probeVars, alertVars, dbVars, thrVars>>

\* while not self.stop_event.is_set():
RunLoopHead ==
    /\ run_pc = "loop"
    /\ IF upd_stop_event
       THEN run_pc' = "exit" /\ run_idx' = run_idx
       ELSE run_pc' = "symbols" /\ run_idx' = 1
    /\ UNCHANGED <<botVars, svcVars, clockVars, apiVars, trdVars, updVars,
                   muVars, callVars, probeVars, alertVars, dbVars, thrVars>>

\* for symbol in self.symbols: if self.stop_event.is_set(): break
\* (after the loop or the break: sleep(self.update_interval))
RunNextSymbol ==
    /\ run_pc = "symbols"
    /\ run_pc' = IF run_idx > NUpdaterSymbols \/ upd_stop_event
                 THEN "loop" ELSE "retries"
    /\ UNCHANGED <<botVars, svcVars, clockVars, apiVars, trdVars, updVars,
                   muVars, run_idx, callVars, probeVars, alertVars, dbVars, thrVars>>

\* if self.error_counts[symbol] >= self.max_retries: continue; else on to
\* update_market_data(symbol), in whatever condition the exchange, the
\* collector and the database then are.
RunCheckRetries ==
    /\ run_pc = "retries"
    /\ IF error_counts[run_idx] >= MaxRetries
       THEN run_pc' = "symbols" /\ run_idx' = run_idx + 1 /\ world' = world
       ELSE run_pc' = "update" /\ run_idx' = run_idx /\ world' \in Worlds
    /\ UNCHANGED <<botVars, svcVars, clockVars, apiVars, trdVars, updVars,
                   muVars, upd_return, upd_stored, probeVars, alertVars, dbVars, thrVars>>

\* self.update_market_data(symbol)
RunUpdate ==
    /\ run_pc = "update"
    /\ UpdateMarketData(run_idx, UpdateOutcome(world))
    /\ run_idx' = run_idx + 1
    /\ run_pc' = "symbols"
    /\ UNCHANGED <<botVars, svcVars, clockVars, apiVars, trdVars, updVars,
                   upd_stop_event, upd_shutdown_complete, api_monitor_kind,
                   world, probeVars, alertVars, dbVars, thrVars>>

\* Faulty variant: run() ends without the acknowledgment.
RunExitNoAck ==
    /\ run_pc = "exit"
    /\ run_pc' = "done"
    /\ UNCHANGED <<botVars, svcVars, clockVars, apiVars, trdVars, updVars,
                   muVars, run_idx, callVars, probeVars, alertVars, dbVars, thrVars>>

\* self.shutdown_complete.set()
RunExit ==
    /\ run_pc = "exit"
    /\ upd_shutdown_complete' = TRUE
    /\ run_pc' = "done"
    /\ UNCHANGED <<botVars, svcVars, clockVars, apiVars, trdVars, updVars,
                   error_counts, upd_stop_event, api_monitor_kind, run_idx,
                   callVars, probeVars, alertVars, dbVars, thrVars>>

RunStep ==
    \/ RunLoopHead
    \/ RunNextSymbol
    \/ RunCheckRetries
    \/ RunUpdate
    \/ RunExit

\* MarketUpdater.stop() called from another thread.
UpdaterStopSet == MarketUpdaterStopSet("idle", "updater_wait")

UpdaterStopWait == MarketUpdaterStopWait("updater_wait", "idle")

NextUpdater ==
    \/ UpdaterRun
    \/ RunStep
    \/ UpdaterStopSet
    \/ UpdaterStopWait

SpecUpdater == InitUpdater /\ [][NextUpdater]_vars

\* Fairness: the thread in run() keeps running; nobody is assumed to call
\* stop().
FairUpdaterSpec == SpecUpdater /\ WF_vars(RunStep)

\* C10: a symbol skipped at the retry ceiling is attempted again in a later
\* cycle (unless the loop is stopped first).
SkippedSymbolRetriedLater ==
    \A s \in 1..NUpdaterSymbols :
        (run_pc = "retries" /\ run_idx = s /\ error_counts[s] >= MaxRetries)
        ~> ((run_pc = "update" /\ run_idx = s) \/ upd_stop_event)

UpdateReturns == run_pc = "update" /\ run_pc' = "symbols"

\* C11: with the exchange healthy and the collector and store calls all
\* succeeding, update_market_data(symbol) returns True, has stored exactly
\* one record and leaves error_counts[symbol] at 0.
HealthyUpdateSucceeds ==
    [][(UpdateReturns /\ world = "ok")
       => (upd_return' /\ upd_stored' = 1 /\ error_counts'[run_idx] = 0)]_vars

\* C12: a faulting update_market_data(symbol) returns False (it does not
\* raise), adds exactly 1 to error_counts[symbol], leaves every other
\* symbol's count unchanged and, when the fault came before the store call,
\* has stored nothing.
FaultingUpdateCountsOnce ==
    [][(UpdateReturns /\ (world # "ok" \/ ~upd_return'))
       => /\ ~upd_return'
          /\ error_counts' = [error_counts EXCEPT ![run_idx] = @ + 1]
          /\ world # "store_fault" => upd_stored' = 0]_vars

\* A fault has been counted against the second symbol only, after a
\* successful update of the first.
SecondSymbolFaulted ==
    /\ run_pc = "symbols"
    /\ run_idx = 3
    /\ ~upd_return
    /\ world = "fault"
    /\ error_counts[1] = 0
    /\ error_counts[2] = 2

\* C13: once run() has seen the stop signal in one of its tests it starts no
\* update for a further symbol; after stop() the loop ends, and when it has
\* ended stop_event and shutdown_complete are both set.
UpdaterStopsAfterSignal ==
    /\ [][upd_stop_event
          => (/\ run_pc = "symbols" => run_pc' \in {"symbols", "loop"}
              /\ run_pc = "loop" => run_pc' \in {"loop", "exit"}
              /\ run_pc' = "update" => run_pc \in {"update", "retries"})]_vars
    /\ (upd_stop_event /\ Alive(run_pc)) ~> (run_pc = "done")
    /\ [](run_pc = "done" => (upd_stop_event /\ upd_shutdown_complete))

\* stop() has returned and the loop, which had made updates, has ended.
UpdaterStopped ==
    /\ main_pc = "idle"
    /\ run_pc = "done"
    /\ upd_stop_event
    /\ upd_shutdown_complete
    /\ upd_return

\* ------------------------------------------------ APIMonitor, call by call
\* A caller holds the monitor and calls its methods one at a time.  A call is
\* two steps: the call with its inputs (what the exchange will answer), and
\* the return, which applies the method's effect and leaves what it returned
\* in api_call.

\* usage_percent of the heaviest REQUEST_WEIGHT limit: below and above
\* rate_limit_threshold * 100.
Usages == {0, 90}

Returned(kind, v) == [op |-> "returned", response |-> kind, value |-> v]

NoCall == api_call.op \in {"idle", "returned"}

otherVars == <<botVars, svcVars, clockVars, trdVars, updVars, muVars, runVars,
               callVars, alertVars, dbVars, thrVars>>

CallCheckAvailability ==
    /\ NoCall
    /\ consecutive_failures < MaxFailures
    /\ \E r \in Responses :
          api_call' = [op |-> "check_availability", response |-> r, value |-> 0]
    /\ UNCHANGED <<apiVars, fault_run, otherVars>>

CallMeasureLatency ==
    /\ NoCall
    /\ consecutive_failures < MaxFailures
    /\ Len(metrics) < MaxMetrics
    /\ \E r \in Responses, elapsed \in 1..MaxLatency :
          api_call' = [op |-> "measure_latency", response |-> r, value |-> elapsed]
    /\ UNCHANGED <<apiVars, fault_run, otherVars>>

CallCheckRateLimits ==
    /\ NoCall
    /\ Len(metrics) < MaxMetrics
    /\ \E r \in Responses \ {"invalid"}, usage \in Usages :
          api_call' = [op |-> "check_rate_limits", response |-> r, value |-> usage]
    /\ UNCHANGED <<apiVars, fault_run, otherVars>>

\* For monitor_endpoint the response is the availability probe's and the
\* value is what measure_latency will return (0 for None).
CallMonitorEndpoint ==
    /\ NoCall
    /\ total_requests < MaxRequests
    /\ consecutive_failures < MaxFailures
    /\ Len(metrics) + 2 <= MaxMetrics
    /\ \E r \in Responses, latency \in 0..MaxLatency :
          api_call' = [op |-> "monitor_endpoint", response |-> r, value |-> latency]
    /\ UNCHANGED <<apiVars, fault_run, otherVars>>

\* Faulty variant: the call records an availability metric.
ReturnCheckAvailabilityRecording ==
    /\ api_call.op = "check_availability"
    /\ LET success == api_call.response = "valid" IN
          /\ consecutive_failures' = CheckAvailability(consecutive_failures, success)
          /\ fault_run' = IF success THEN 0 ELSE fault_run + 1
          /\ metrics' = RecordMetric(metrics, "availability", IF success THEN 1 ELSE 0)
          /\ api_call' = Returned(IF success THEN "True" ELSE "False", 0)
    /\ UNCHANGED <<total_requests, failed_requests, otherVars>>

ReturnCheckAvailability ==
    /\ api_call.op = "check_availability"
    /\ LET success == api_call.response = "valid" IN
          /\ consecutive_failures' = CheckAvailability(consecutive_failures, success)
          /\ fault_run' = IF success THEN 0 ELSE fault_run + 1
          /\ api_call' = Returned(IF success THEN "True" ELSE "False", 0)
    /\ UNCHANGED <<total_requests, failed_requests, metrics, otherVars>>

ReturnMeasureLatency ==
    /\ api_call.op = "measure_latency"
    /\ LET latency == IF api_call.response = "valid" THEN api_call.value ELSE 0 IN
          /\ consecutive_failures' = MeasureLatency(consecutive_failures, latency)
          /\ metrics' = MeasureLatencyLog(metrics, latency)
          /\ fault_run' = IF latency # 0 THEN 0 ELSE fault_run + 1
          /\ api_call' = IF latency # 0 THEN Returned("float", latency)
                         ELSE Returned("None", 0)
    /\ UNCHANGED <<total_requests, failed_requests, otherVars>>

ReturnCheckRateLimits ==
    /\ api_call.op = "check_rate_limits"
    /\ IF api_call.response = "valid"
       THEN /\ metrics' = RecordMetric(metrics, "rate_limit", api_call.value)
            /\ api_call' = Returned("dict", api_call.value)
       ELSE /\ metrics' = metrics
            /\ api_call' = Returned("empty", 0)
    /\ UNCHANGED <<total_requests, failed_requests, consecutive_failures,
                   fault_run, otherVars>>

ReturnMonitorEndpoint ==
    /\ api_call.op = "monitor_endpoint"
    /\ LET available == api_call.response = "valid"
           latency == api_call.value IN
          /\ MonitorEndpoint(available, latency)
          /\ fault_run' = FaultRunAfterMonitorEndpoint(fault_run, available, latency)
          /\ api_call' = Returned(IF available /\ latency # 0 THEN "True" ELSE "False", 0)
    /\ UNCHANGED otherVars

NextAPIMonitor ==
    \/ CallCheckAvailability
    \/ CallMeasureLatency
    \/ CallCheckRateLimits
    \/ CallMonitorEndpoint
    \/ ReturnCheckAvailability
    \/ ReturnMeasureLatency
    \/ ReturnCheckRateLimits
    \/ ReturnMonitorEndpoint

SpecAPIMonitor == Init /\ [][NextAPIMonitor]_vars

LatencyMetrics(log) == SelectSeq(log, LAMBDA m : m.type = "latency")

\* C14: a measure_latency or check_availability call that fails adds 1 to
\* consecutive_failures, records no latency metric and returns None / False;
\* one that succeeds sets consecutive_failures to 0, and measure_latency then
\* appends exactly one latency metric, holding the elapsed time it returns.
ProbeCountsFailures ==
    [][/\ (api_call.op = "check_availability" /\ api_call' # api_call)
          => /\ metrics' = metrics
             /\ IF api_call.response = "valid"
                THEN consecutive_failures' = 0 /\ api_call'.response = "True"
                ELSE /\ consecutive_failures' = consecutive_failures + 1
                     /\ api_call'.response = "False"
       /\ (api_call.op = "measure_latency" /\ api_call' # api_call)
          => IF api_call.response = "valid"
             THEN /\ consecutive_failures' = 0
                  /\ metrics' = Append(metrics, [type |-> "latency",
                                                 value |-> api_call.value])
                  /\ api_call' = Returned("float", api_call.value)
             ELSE /\ consecutive_failures' = consecutive_failures + 1
                  /\ metrics' = metrics
                  /\ api_call'.response = "None"]_vars

\* A measurement has succeeded and been logged, and two probes since then
\* have failed, the last of them a measurement that returned None.
MeasurementFailedAfterSuccess ==
    /\ api_call = Returned("None", 0)
    /\ consecutive_failures = 2
    /\ metrics = <<[type |-> "latency", value |-> MaxLatency]>>

\* -------------------------------------------------- APIMonitor.get_alerts()
\* Metric values are kept in units of 1000 ms.
Ms(v) == v * 1000

\* Faulty variant: a latency equal to the threshold counts as high.
HighLatencyMetricsFromThreshold(log) ==
    {i \in 1..Len(log) : log[i].type = "latency" /\ Ms(log[i].value) >= LatencyThreshold}

\* high_latency_metrics: the latency metrics above the threshold, by their
\* place in the log.
HighLatencyMetrics(log) ==
    {i \in 1..Len(log) : log[i].type = "latency" /\ Ms(log[i].value) > LatencyThreshold}

\* max(high_latency_metrics, key = timestamp): record_metric stamps a metric
\* when it appends it, so the latest is the last in the log.
Latest(indices) == CHOOSE i \in indices : \A j \in indices : j <= i

\* Faulty variant: a rate equal to the threshold raises the alert.
HighErrorRateFromThreshold(failed, total) ==
    total > 0 /\ failed * 100 >= ErrorRateThresholdPercent * total

\* total_requests > 0 and failed_requests / total_requests > 0.1
HighErrorRate(failed, total) ==
    total > 0 /\ failed * 100 > ErrorRateThresholdPercent * total

\* Faulty variant: the alert comes only above the threshold.
ManyConsecutiveFailuresAboveThreshold(cf) == cf > ConsecutiveFailuresThreshold

\* consecutive_failures >= alert_thresholds['consecutive_failures']
ManyConsecutiveFailures(cf) == cf >= ConsecutiveFailuresThreshold

\* One alert.  Values and thresholds are <<numerator, denominator>>; the
\* timestamp is that of a metric (its place in the log) or of the call.
Alert(type, value, threshold, timestamp) ==
    [type |-> type, value |-> value, threshold |-> threshold, timestamp |-> timestamp]

HighLatencyAlerts ==
    IF HighLatencyMetrics(metrics) # {}
    THEN LET latest == Latest(HighLatencyMetrics(metrics)) IN
         <<Alert("high_latency", <<Ms(metrics[latest].value), 1>>,
                 <<LatencyThreshold, 1>>, <<"metric", latest>>)>>
    ELSE <<>>

HighErrorRateAlerts(t) ==
    IF HighErrorRate(failed_requests, total_requests)
    THEN <<Alert("high_error_rate", <<failed_requests, total_requests>>,
                 <<ErrorRateThresholdPercent, 100>>, <<"call", t>>)>>
    ELSE <<>>

ConsecutiveFailuresAlerts(t) ==
    IF ManyConsecutiveFailures(consecutive_failures)
    THEN <<Alert("consecutive_failures", <<consecutive_failures, 1>>,
                 <<ConsecutiveFailuresThreshold, 1>>, <<"call", t>>)>>
    ELSE <<>>

\* Faulty variant: the error-rate alert is put first.
GetAlertsErrorRateFirst(t) ==
    HighErrorRateAlerts(t) \o HighLatencyAlerts \o ConsecutiveFailuresAlerts(t)

\* get_alerts() called at time t.
GetAlerts(t) ==
    HighLatencyAlerts \o HighErrorRateAlerts(t) \o ConsecutiveFailuresAlerts(t)

HasAlert(list, type) == \E i \in 1..Len(list) : list[i].type = type

\* C15: consecutive_failures is the number of probe faults since the last
\* successful probe (so three faults from 0 give 3 and a success gives 0),
\* and get_alerts reports the consecutive_failures alert, carrying the count,
\* exactly when that number has reached the threshold.
ConsecutiveFailuresAlertAtThreshold ==
    /\ consecutive_failures = fault_run
    /\ HasAlert(GetAlerts(now), "consecutive_failures")
           <=> fault_run >= ConsecutiveFailuresThreshold
    /\ \A i \in 1..Len(GetAlerts(now)) :
           GetAlerts(now)[i].type = "consecutive_failures"
               => GetAlerts(now)[i].value = <<fault_run, 1>>

\* Exactly three probes in a row have failed, the last of them the latency
\* measurement of a monitor_endpoint call, and the alert is reported.
ThreeProbeFaults ==
    /\ fault_run = ConsecutiveFailuresThreshold
    /\ api_call = Returned("False", 0)
    /\ total_requests = 1
    /\ failed_requests = 1
    /\ HasAlert(GetAlerts(now), "consecutive_failures")

\* get_metrics_summary()['error_rate'] as <<numerator, denominator>>:
\* failed_requests / total_requests if total_requests > 0 else 0.
ErrorRate == IF total_requests > 0 THEN <<failed_requests, total_requests>> ELSE <<0, 1>>

\* C20: failed_requests never exceeds total_requests, so the error rate of
\* get_metrics_summary is a fraction between 0 and 1, and it is 0 while no
\* request has been counted.
ErrorRateInUnitInterval ==
    /\ 0 <= failed_requests
    /\ failed_requests <= total_requests
    /\ 0 <= ErrorRate[1]
    /\ ErrorRate[1] <= ErrorRate[2]
    /\ total_requests = 0 => ErrorRate[1] = 0

\* Every counted request has failed, after probes of each kind.
AllRequestsFailed ==
    /\ total_requests = MaxRequests
    /\ failed_requests = total_requests
    /\ consecutive_failures > total_requests
    /\ api_call.op = "returned"

\* ------------------------------------------------ get_alerts(), call by call
\* A monitor that has been in use: any counters it can hold and a log of
\* latency metrics (get_alerts reads no other kind).  Its alerts are read
\* from time to time while the clock runs and an endpoint is probed.
LatencyLogs ==
    UNION {[1..n -> {[type |-> "latency", value |-> v] : v \in 1..MaxLatency}] :
           n \in 0..MaxLogged}

InitAlerts ==
    /\ InitThreads
    /\ InitMonitoringService
    /\ InitCalls
    /\ InitMarketUpdater
    /\ InitLocals
    /\ InitDatabase
    /\ api_monitor_kind = "APIMonitor"
    /\ total_requests \in 0..MaxTotal
    /\ failed_requests \in 0..total_requests
    /\ consecutive_failures \in 0..MaxFailures
    /\ metrics \in LatencyLogs

\* Faulty variant: reading the alerts clears the failure count.
CallGetAlertsClearing ==
    /\ alerts' = GetAlerts(now)
    /\ alerts_current' = TRUE
    /\ consecutive_failures' = 0
    /\ UNCHANGED <<botVars, svcVars, clockVars, trdVars, updVars, muVars, runVars,
                   callVars, probeVars, now, total_requests, failed_requests,
                   metrics, dbVars, thrVars>>

\* alerts = monitor.get_alerts()
CallGetAlerts ==
    /\ alerts' = GetAlerts(now)
    /\ alerts_current' = TRUE
    /\ UNCHANGED <<botVars, svcVars, clockVars, trdVars, updVars, muVars, runVars,
                   callVars, probeVars, now, apiVars, dbVars, thrVars>>

\* datetime.now() moves on between calls.
ClockAdvance ==
    /\ now < MaxNow
    /\ now' = now + 1
    /\ UNCHANGED <<botVars, svcVars, clockVars, trdVars, updVars, muVars, runVars,
                   callVars, probeVars, apiVars, alerts, alerts_current, dbVars, thrVars>>

NextAlerts ==
    \/ CallGetAlerts
    \/ ClockAdvance
    \/ ClientMonitorEndpoint

SpecAlerts == InitAlerts /\ [][NextAlerts]_vars

RECURSIVE SumValues(_)
SumValues(log) == IF log = <<>> THEN 0 ELSE Head(log).value + SumValues(Tail(log))

\* A step that is a get_alerts call: it leaves the list current and is not a
\* step of the clock.
GetAlertsReturns == alerts_current' /\ now' = now

\* C16, as stated: the list just returned holds a high_latency alert exactly
\* when the average of all recorded latency values is above the latency
\* threshold.
HighLatencyOnAverage ==
    alerts_current =>
        (HasAlert(alerts, "high_latency")
         <=> /\ LatencyMetrics(metrics) # <<>>
             /\ Ms(SumValues(LatencyMetrics(metrics)))
                    > LatencyThreshold * Len(LatencyMetrics(metrics)))

\* C16, amended: the list just returned holds a high_latency alert exactly
\* when some recorded latency value is above the latency threshold, and the
\* alert carries the most recent such value.
HighLatencyOnAnyValue ==
    alerts_current =>
        LET L == LatencyMetrics(metrics)
            high == {k \in 1..Len(L) : Ms(L[k].value) > LatencyThreshold}
        IN /\ HasAlert(alerts, "high_latency") <=> high # {}
           /\ high # {} =>
                  alerts[1].value = <<Ms(L[CHOOSE k \in high : \A j \in high : j <= k].value), 1>>

\* One latency above the threshold and a later one below it, the average at
\* the threshold: the alert is reported with the high value.
HighLatencyThenLow ==
    /\ alerts_current
    /\ Len(metrics) = 2
    /\ Ms(metrics[1].value) > LatencyThreshold
    /\ Ms(metrics[1].value + metrics[2].value) = LatencyThreshold * 2
    /\ HasAlert(alerts, "high_latency")
    /\ alerts[1].value = <<Ms(metrics[1].value), 1>>

\* C17: the list just returned holds a high_error_rate alert exactly when
\* total_requests > 0 and failed_requests / total_requests is strictly above
\* the error-rate threshold of 10 %.
HighErrorRateStrictlyAbove ==
    alerts_current =>
        (HasAlert(alerts, "high_error_rate")
         <=> /\ total_requests > 0
             /\ failed_requests * 100 > ErrorRateThresholdPercent * total_requests)

\* A rate equal to the threshold (1 failed of 10) has been read: no
\* high_error_rate alert.
ErrorRateAtThreshold ==
    /\ alerts_current
    /\ total_requests = 10
    /\ failed_requests = 1
    /\ ~HasAlert(alerts, "high_error_rate")

\* An alert list without the times of the calls: the alerts stamped by
\* get_alerts itself lose their timestamp.
Untimed(list) ==
    [i \in 1..Len(list) |->
        IF list[i].timestamp[1] = "call"
        THEN [list[i] EXCEPT !.timestamp = <<"call", 0>>]
        ELSE list[i]]

\* C18, as stated: a get_alerts call changes no state of the monitor, and
\* with no change of the monitor since the last call it returns a list
\* identical to that call's.
GetAlertsIdempotent ==
    [][GetAlertsReturns
       => /\ apiVars' = apiVars
          /\ alerts_current => alerts' = alerts]_vars

\* C18, amended: a get_alerts call changes no state of the monitor, and with
\* no change of the monitor since the last call it returns the same alerts
\* in the same order with the same values, thresholds and high_latency
\* timestamp; the timestamps of the high_error_rate and consecutive_failures
\* alerts are the time of each call.
GetAlertsIdempotentUpToCallTime ==
    [][GetAlertsReturns
       => /\ apiVars' = apiVars
          /\ alerts_current => Untimed(alerts') = Untimed(alerts)
          /\ \A i \in 1..Len(alerts') :
                 alerts'[i].timestamp[1] = "call" => alerts'[i].timestamp[2] = now]_vars

\* The alerts of an unchanged monitor have been read at a later time: the
\* error-rate alert carries the time of this call.
AlertsReadLater ==
    /\ alerts_current
    /\ now = 1
    /\ consecutive_failures = 0
    /\ Len(alerts) = 2
    /\ alerts[2].type = "high_error_rate"
    /\ alerts[2].timestamp = <<"call", 1>>

Rank(type) ==
    IF type = "high_latency" THEN 1 ELSE IF type = "high_error_rate" THEN 2 ELSE 3

\* C19: the alerts of a returned list are in the order high_latency,
\* high_error_rate, consecutive_failures, each kind at most once.
AlertsInFixedOrder ==
    /\ \A i \in 1..Len(alerts) :
           alerts[i].type \in {"high_latency", "high_error_rate", "consecutive_failures"}
    /\ \A i, j \in 1..Len(alerts) :
           i < j => Rank(alerts[i].type) < Rank(alerts[j].type)

\* All three conditions hold and the three alerts have been returned.
AllThreeAlerts ==
    /\ alerts_current
    /\ Len(alerts) = 3
    /\ consecutive_failures = MaxFailures
    /\ failed_requests = total_requests

\* ------------------------------------------ APIMonitor.get_metrics_summary()
\* Faulty variant: the values of all records, whatever their kind.
LatencyValuesOfAllKinds(log) == [i \in 1..Len(log) |-> log[i].value]

\* latency_metrics = [m['value'] for m in self.metrics if m['type'] == 'latency']
LatencyValues(log) ==
    [i \in 1..Len(LatencyMetrics(log)) |-> LatencyMetrics(log)[i].value]

\* sum(), min() and max() of a list of numbers.
RECURSIVE SeqSum(_)
SeqSum(values) == IF values = <<>> THEN 0 ELSE Head(values) + SeqSum(Tail(values))

RECURSIVE SeqMin(_)
SeqMin(values) ==
    IF Len(values) = 1 THEN Head(values)
    ELSE IF Head(values) <= SeqMin(Tail(values)) THEN Head(values)
         ELSE SeqMin(Tail(values))

RECURSIVE SeqMax(_)
SeqMax(values) ==
    IF Len(values) = 1 THEN Head(values)
    ELSE IF Head(values) >= SeqMax(Tail(values)) THEN Head(values)
         ELSE SeqMax(Tail(values))

\* The latency statistics added to the summary when the log holds latency
\* metrics: the average as <<sum, count>>, in the unit of the log.
LatencyStatistics(log) ==
    IF LatencyValues(log) # <<>>
    THEN [avg_latency |-> <<SeqSum(LatencyValues(log)), Len(LatencyValues(log))>>,
          min_latency |-> SeqMin(LatencyValues(log)),
          max_latency |-> SeqMax(LatencyValues(log))]
    ELSE <<>>

\* get_metrics_summary() called at time t.
GetMetricsSummaryAt(t) ==
    [total_requests |-> total_requests,
     failed_requests |-> failed_requests,
     error_rate |-> ErrorRate,
     consecutive_failures |-> consecutive_failures,
     alerts |-> GetAlerts(t),
     last_update |-> t] @@ LatencyStatistics(metrics)

\* summary = monitor.get_metrics_summary(): it changes nothing in the monitor.
CallGetMetricsSummary ==
    /\ NoCall
    /\ api_call' = Returned("summary", GetMetricsSummaryAt(now))
    /\ UNCHANGED <<apiVars, fault_run, otherVars>>

NextSummary ==
    \/ CallMeasureLatency
    \/ ReturnMeasureLatency
    \/ CallMonitorEndpoint
    \/ ReturnMonitorEndpoint
    \/ CallGetMetricsSummary

SpecSummary == Init /\ [][NextSummary]_vars

LatencyPlaces == {i \in 1..Len(metrics) : metrics[i].type = "latency"}

RECURSIVE SumByValue(_)
SumByValue(v) ==
    IF v = 0 THEN 0
    ELSE v * Cardinality({i \in LatencyPlaces : metrics[i].value = v}) + SumByValue(v - 1)

\* C21: a summary just returned holds avg_latency, min_latency and
\* max_latency equal to the mean, least and greatest value of the latency
\* records of the log, whatever other records it holds, and none of the
\* three fields when the log has no latency record.
SummaryLatencyStatistics ==
    api_call.response = "summary" =>
        LET summary == api_call.value IN
        IF LatencyPlaces = {}
        THEN {"avg_latency", "min_latency", "max_latency"} \cap DOMAIN summary = {}
        ELSE /\ {"avg_latency", "min_latency", "max_latency"} \subseteq DOMAIN summary
             /\ summary.avg_latency = <<SumByValue(MaxLatency), Cardinality(LatencyPlaces)>>
             /\ \E i \in LatencyPlaces : metrics[i].value = summary.min_latency
             /\ \A i \in LatencyPlaces : metrics[i].value >= summary.min_latency
             /\ \E i \in LatencyPlaces : metrics[i].value = summary.max_latency
             /\ \A i \in LatencyPlaces : metrics[i].value <= summary.max_latency

\* A summary of a log with two different latencies and an availability
\* record between them.
SummaryOfMixedLog ==
    /\ api_call.response = "summary"
    /\ Len(metrics) = 3
    /\ metrics[2].type = "availability"
    /\ "avg_latency" \in DOMAIN api_call.value
    /\ api_call.value.min_latency = 1
    /\ api_call.value.max_latency = MaxLatency

\* ------------------------------------------- APIMonitor.check_rate_limits()
\* exchange_info['rateLimits']: buckets of the request-weight type with a
\* current weight of nothing, 40 or 90 against a limit of 0, 50 or 100 (so
\* usages below, at and above 80 %), and a bucket of another type.
Buckets ==
    {[rateLimitType |-> "REQUEST_WEIGHT", current |-> c, limit |-> l] :
         c \in {0, 40, 90}, l \in {0, 50, 100}}
    \cup {[rateLimitType |-> "ORDERS", current |-> 90, limit |-> 50]}

BucketLists == UNION {[1..n -> Buckets] : n \in 0..MaxBuckets}

\* usage_percent = (current / max_limit) * 100 if max_limit > 0 else 0
UsagePercent(bucket) ==
    IF bucket.limit > 0 THEN (bucket.current * 100) \div bucket.limit ELSE 0

\* The loop over rate_limits: a REQUEST_WEIGHT bucket replaces the one kept
\* so far when its usage is greater.
RECURSIVE ScanRateLimits(_, _)
ScanRateLimits(rate_limits, kept) ==
    IF rate_limits = <<>> THEN kept
    ELSE LET limit == Head(rate_limits) IN
         ScanRateLimits(Tail(rate_limits),
             IF /\ limit.rateLimitType = "REQUEST_WEIGHT"
                /\ UsagePercent(limit) > kept.usage_percent
             THEN [weight |-> limit.current, limit |-> limit.limit,
                   usage_percent |-> UsagePercent(limit)]
             ELSE kept)

\* Faulty variant: CRITICAL from the threshold on.
RateLimitStatusFromThreshold(usage_percent) ==
    IF usage_percent >= RateLimitThresholdPercent THEN "CRITICAL" ELSE "OK"

\* 'CRITICAL' if max_usage_percent > rate_limit_threshold * 100 else 'OK'
RateLimitStatus(usage_percent) ==
    IF usage_percent > RateLimitThresholdPercent THEN "CRITICAL" ELSE "OK"

\* The result dict of check_rate_limits for the buckets the exchange reports.
CheckRateLimits(rate_limits) ==
    LET kept == ScanRateLimits(rate_limits,
                               [weight |-> 0, limit |-> 0, usage_percent |-> 0])
    IN [weight |-> kept.weight, limit |-> kept.limit,
        usage_percent |-> kept.usage_percent,
        status |-> RateLimitStatus(kept.usage_percent)]

\* limits = monitor.check_rate_limits(): the monitor has no client, or
\* get_exchange_info raises, or it answers with a list of buckets.
QueryRateLimits ==
    /\ NoCall
    /\ Len(metrics) < MaxRateChecks
    /\ \E r \in {"valid", "raised", "no_client"}, rate_limits \in BucketLists :
          api_call' = [op |-> "check_rate_limits", response |-> r,
                       value |-> rate_limits]
    /\ UNCHANGED <<apiVars, fault_run, otherVars>>

\* Faulty variant: the metric is recorded before the exchange is asked.
AnswerRateLimitsAlwaysRecording ==
    /\ api_call.op = "check_rate_limits"
    /\ metrics' = RecordMetric(metrics, "rate_limit",
                               CheckRateLimits(api_call.value).usage_percent)
    /\ api_call' = IF api_call.response = "valid"
                   THEN Returned("dict", CheckRateLimits(api_call.value))
                   ELSE Returned("empty", <<>>)
    /\ UNCHANGED <<total_requests, failed_requests, consecutive_failures,
                   fault_run, otherVars>>

\* The return of check_rate_limits: the result dict and its rate_limit
\* metric, or {} with nothing recorded.
AnswerRateLimits ==
    /\ api_call.op = "check_rate_limits"
    /\ IF api_call.response = "valid"
       THEN /\ metrics' = RecordMetric(metrics, "rate_limit",
                                       CheckRateLimits(api_call.value).usage_percent)
            /\ api_call' = Returned("dict", CheckRateLimits(api_call.value))
       ELSE /\ metrics' = metrics
            /\ api_call' = Returned("empty", <<>>)
    /\ UNCHANGED <<total_requests, failed_requests, consecutive_failures,
                   fault_run, otherVars>>

NextRateLimits ==
    \/ QueryRateLimits
    \/ AnswerRateLimits

SpecRateLimits == Init /\ [][NextRateLimits]_vars

RateLimitsReturn == api_call.op = "check_rate_limits" /\ api_call'.op = "returned"

\* C22: a check_rate_limits call that the exchange answers returns the
\* greatest usage of the REQUEST_WEIGHT buckets with the weight and limit of
\* a bucket that has that usage, and the zero result with status OK when
\* there is no such bucket.
RateLimitsOfHeaviestBucket ==
    [][(RateLimitsReturn /\ api_call.response = "valid")
       => LET rate_limits == api_call.value
              result == api_call'.value
              W == {i \in 1..Len(rate_limits) :
                        rate_limits[i].rateLimitType = "REQUEST_WEIGHT"}
          IN IF W = {}
             THEN result = [weight |-> 0, limit |-> 0, usage_percent |-> 0,
                            status |-> "OK"]
             ELSE /\ \A i \in W : UsagePercent(rate_limits[i]) <= result.usage_percent
                  /\ \E i \in W :
                        /\ UsagePercent(rate_limits[i]) = result.usage_percent
                        /\ rate_limits[i].current = result.weight
                        /\ rate_limits[i].limit = result.limit]_vars

\* C23: the status of a returned result is CRITICAL exactly when its
\* usage_percent is strictly above 80, and OK otherwise.
RateLimitCriticalStrictlyAbove ==
    [][(RateLimitsReturn /\ api_call.response = "valid")
       => /\ api_call'.value.status \in {"OK", "CRITICAL"}
          /\ api_call'.value.status = "CRITICAL"
                 <=> api_call'.value.usage_percent > RateLimitThresholdPercent]_vars

\* A usage equal to the threshold (40 of 50) has been returned as OK, after
\* a check that gave 90 of 100.
UsageAtThresholdIsOK ==
    /\ api_call.response = "dict"
    /\ api_call.value = [weight |-> 40, limit |-> 50, usage_percent |-> 80,
                         status |-> "OK"]
    /\ metrics = <<[type |-> "rate_limit", value |-> 90],
                   [type |-> "rate_limit", value |-> 80]>>

\* C24: a check_rate_limits call on a monitor without client, or whose
\* get_exchange_info raises, returns {} and appends nothing; every other
\* call returns a result and appends exactly one rate_limit metric, holding
\* the usage it returns.
RateLimitsEmptyOnFailure ==
    [][RateLimitsReturn
       => IF api_call.response \in {"raised", "no_client"}
          THEN api_call'.response = "empty" /\ metrics' = metrics
          ELSE /\ api_call'.response = "dict"
               /\ metrics' = Append(metrics,
                      [type |-> "rate_limit",
                       value |-> api_call'.value.usage_percent])]_vars

\* A check has failed after one that succeeded: {} is returned and the log
\* still holds the one metric.
RateLimitsFailedAfterSuccess ==
    /\ api_call.response = "empty"
    /\ Len(metrics) = 1
    /\ metrics[1].value = 180

\* ------------------------------------- availability and monitor_endpoint
CheckAvailabilityReturns == api_call.op = "check_availability" /\ api_call'.op = "returned"

MonitorEndpointReturns == api_call.op = "monitor_endpoint" /\ api_call'.op = "returned"

AvailabilityMetrics(log) == SelectSeq(log, LAMBDA m : m.type = "availability")

\* C25, as stated: every check_availability call appends exactly one
\* availability metric, 1 for an available endpoint and 0 otherwise.
CheckAvailabilityRecordsMetric ==
    [][CheckAvailabilityReturns
       => metrics' = Append(metrics,
              [type |-> "availability",
               value |-> IF api_call.response = "valid" THEN 1 ELSE 0])]_vars

\* C25, amended: a check_availability call appends no metric; availability
\* metrics come from monitor_endpoint, one per call that found the endpoint
\* available, with value 1 when the latency measurement succeeded and 0 when
\* it failed, and none per call that found it unavailable.
AvailabilityRecordedByMonitorEndpoint ==
    [][/\ CheckAvailabilityReturns => metrics' = metrics
       /\ MonitorEndpointReturns
          => AvailabilityMetrics(metrics') =
                 IF api_call.response = "valid"
                 THEN Append(AvailabilityMetrics(metrics),
                             [type |-> "availability",
                              value |-> IF api_call.value # 0 THEN 1 ELSE 0])
                 ELSE AvailabilityMetrics(metrics)
       /\ ~(CheckAvailabilityReturns \/ MonitorEndpointReturns)
          => AvailabilityMetrics(metrics') = AvailabilityMetrics(metrics)]_vars

\* check_availability has returned True on a monitor that has counted no
\* request, and the log is still empty.
AvailableAndNothingRecorded ==
    /\ api_call.response = "True"
    /\ total_requests = 0
    /\ consecutive_failures = 0
    /\ metrics = <<>>

AvailableEndpointCounted ==
    [][(MonitorEndpointReturns /\ api_call.response = "valid")
       => /\ total_requests' = total_requests + 1
          /\ IF api_call.value # 0
             THEN /\ metrics' = metrics \o
                        <<[type |-> "latency", value |-> api_call.value],
                          [type |-> "availability", value |-> 1]>>
                  /\ failed_requests' = failed_requests
                  /\ api_call'.response = "True"
             ELSE /\ metrics' = Append(metrics, [type |-> "availability", value |-> 0])
                  /\ failed_requests' = failed_requests + 1
                  /\ api_call'.response = "False"]_vars

\* Two requests on an available endpoint, the first not measured and the
\* second measured.
FailedThenMeasured ==
    /\ api_call.response = "True"
    /\ total_requests = 2
    /\ failed_requests = 1
    /\ metrics = <<[type |-> "availability", value |-> 0],
                   [type |-> "latency", value |-> 1],
                   [type |-> "availability", value |-> 1]>>

\* ------------------------------------ APIMonitor.record_metric(), called
\* Faulty variant: a failed write of metrics.json is raised.
SaveMetricsRaising(log, writable) == IF writable THEN "saved" ELSE "raised"

\* _save_metrics: json.dump(self.metrics, f) into metrics.json; a fault of
\* open or dump is caught and logged.
SaveMetrics(log, writable) == IF writable THEN "saved" ELSE "logged"

\* record_metric as its caller sees it: the log after the append and how
\* the call ends; the append comes before the write of the snapshot.
RecordMetricCall(log, type, value, writable) ==
    [log |-> RecordMetric(log, type, value),
     outcome |-> SaveMetrics(RecordMetric(log, type, value), writable)]

\* The metrics a caller records: a latency or an availability.
RecordableMetrics ==
    {[type |-> "latency", value |-> v] : v \in 1..MaxLatency}
    \cup {[type |-> "availability", value |-> v] : v \in {0, 1}}

\* monitor.record_metric(type, value, endpoint), while metrics.json can be
\* written or cannot.
CallRecordMetric ==
    /\ NoCall
    /\ Len(metrics) < MaxMetrics
    /\ \E m \in RecordableMetrics, r \in {"writable", "unwritable"} :
          api_call' = [op |-> "record_metric", response |-> r, value |-> m]
    /\ UNCHANGED <<apiVars, fault_run, otherVars>>

\* The return of record_metric: None, or the fault of the snapshot write;
\* the value notes whether the snapshot was written.
ReturnRecordMetric ==
    /\ api_call.op = "record_metric"
    /\ LET call == RecordMetricCall(metrics, api_call.value.type,
                                    api_call.value.value,
                                    api_call.response = "writable")
       IN /\ metrics' = call.log
          /\ api_call' = Returned(IF call.outcome = "raised" THEN "raised" ELSE "None",
                                  IF call.outcome = "saved" THEN 1 ELSE 0)
    /\ UNCHANGED <<total_requests, failed_requests, consecutive_failures,
                   fault_run, otherVars>>

NextRecorder ==
    \/ CallRecordMetric
    \/ ReturnRecordMetric
    \/ CallMeasureLatency
    \/ ReturnMeasureLatency
    \/ CallCheckRateLimits
    \/ ReturnCheckRateLimits

SpecRecorder == Init /\ [][NextRecorder]_vars

RecordMetricReturns == api_call.op = "record_metric" /\ api_call'.op = "returned"

\* C28: every step of the monitor leaves the records already in the log in
\* place (it can only add at the end), and a record_metric call adds exactly
\* its record at the end and returns normally, whether or not the snapshot
\* could be written.
LogAppendOnly ==
    [][/\ Len(metrics') >= Len(metrics)
       /\ SubSeq(metrics', 1, Len(metrics)) = metrics
       /\ RecordMetricReturns
          => /\ metrics' = Append(metrics, api_call.value)
             /\ api_call'.response = "None"]_vars

\* A record has been appended although the snapshot could not be written,
\* after a measurement and an earlier record.
RecordedWithoutSnapshot ==
    /\ api_call = Returned("None", 0)
    /\ metrics = <<[type |-> "latency", value |-> 1],
                   [type |-> "availability", value |-> 1],
                   [type |-> "availability", value |-> 0]>>

\* ----------------------------------------------- faults inside the loops
\* A step of the monitoring loop out of an endpoint check or out of the
\* alerts and summary, where collaborator faults are caught.
MonHandlerStep == mon_pc \in {"check", "alerts"} /\ mon_pc' # mon_pc

\* A step of the trading loop out of one of its two `except` blocks.
TrdHandlerStep == trd_pc \in {"except", "cycle_except"} /\ trd_pc' # trd_pc

\* A step of the data-update loop that called update_market_data.
UpdUpdateStep == upd_pc = "symbols" /\ upd_idx' = upd_idx + 1

LoopsEndOnlyOnRequest ==
    /\ (mon_pc # "finally" /\ mon_pc' = "finally") => stop_event
    /\ (upd_pc # "done" /\ upd_pc' = "done") => ~is_running
    /\ (trd_pc # "done" /\ trd_pc' = "done") => ~is_running'

DatabaseErrorsKeepBotRunning ==
    [][(trd_pc = "except" /\ trd_pc' # trd_pc) => is_running' = is_running]_vars

\* ------------------------------------------------ who writes what
\* The trading loop and the data-update loop of a started bot, next to a
\* client that probes endpoints through the bot's monitor, so that the
\* monitor's state changes while the loops run. The monitoring loop writes
\* none of the state in question (its checks leave the monitor untouched) and
\* takes no step here.
NextOwners ==
    \/ StartStep
    \/ TrdStep
    \/ UpdStep
    \/ ClientMonitorEndpoint

SpecOwners == Init /\ [][NextOwners]_vars

\* C31: each piece of loop state has a single writer: a step of the trading
\* loop leaves the monitor's counters, consecutive_failures and metric log
\* as they are (it only copies the summary); error_counts changes only in
\* a step of the data-update loop; the trading loop's consecutive_errors
\* changes only in a step of the trading loop.
SingleWriterPerCounter ==
    [][/\ (trd_pc' # trd_pc \/ monitoring_metrics' # monitoring_metrics)
            => UNCHANGED apiVars
       /\ upd_pc' # upd_pc \/ upd_idx' # upd_idx => UNCHANGED apiVars
       /\ error_counts' # error_counts
            => (upd_pc = "symbols" /\ upd_idx' = upd_idx + 1
                /\ UNCHANGED <<trdVars, botVars>>)
       /\ consecutive_errors' # consecutive_errors
            => (trd_pc' # trd_pc /\ UNCHANGED <<updVars, error_counts>>)]_vars

\* The trading loop has read a summary that the client's probes had changed,
\* has counted an error of its own, and the data-update loop has counted a
\* failed update.
EachOwnerHasWritten ==
    /\ monitoring_metrics.total_requests > 0
    /\ Len(metrics) > 0
    /\ consecutive_errors > 0
    /\ error_counts[1] > 0

\* ------------------------------------------------------- cancellation
\* A loop takes up its next item: the per-item test has let it through.
MonBeginsItem == mon_pc = "endpoints" /\ mon_pc' = "decide"
TrdBeginsItem == trd_pc = "symbols" /\ trd_pc' = "fetch"
UpdBeginsItem == upd_pc = "symbols" /\ upd_idx' = upd_idx + 1

\* C32: cancellation is tested once per iteration and once per item: with
\* the stop signal set the monitoring loop takes up no further endpoint and
\* its next `while` test ends it; with is_running cleared the trading loop
\* and the data-update loop take up no further symbol and their next `while`
\* test ends them. An item taken up before the cancellation is finished.
CancellationCheckedPerItem ==
    [][/\ stop_event
            => /\ ~MonBeginsItem
               /\ (mon_pc = "loop" /\ mon_pc' # mon_pc) => mon_pc' = "finally"
       /\ ~is_running
            => /\ ~TrdBeginsItem
               /\ (trd_pc = "loop" /\ trd_pc' # trd_pc) => trd_pc' = "done"
               /\ ~UpdBeginsItem
               /\ (upd_pc = "loop" /\ upd_pc' # upd_pc) => upd_pc' = "done"]_vars

\* stop() has returned and the three loops have exited, each with part of
\* its list left over: the monitoring loop after its first endpoint, the
\* trading loop and the data-update loop before their first symbol.
LoopsLeftItemsUntouched ==
    /\ main_pc = "idle"
    /\ stop_event
    /\ AllLoopsDone
    /\ mon_idx > 1
    /\ mon_idx <= NEndpoints
    /\ trd_idx <= NSymbols
    /\ consecutive_errors < MaxConsecutiveErrors
    /\ upd_idx <= NSymbols
    /\ error_counts[1] > 0

\* ------------------------------------------------------ MongoDBManager
\* The constructor is about to connect: retry_count = 0, no attempt made.
InitMongo ==
    /\ InitThreads
    /\ InitMonitoringService
    /\ InitAPIMonitor
    /\ InitCalls
    /\ InitMarketUpdater
    /\ InitLocals
    /\ api_monitor_kind = "APIMonitor"
    /\ db = [pc |-> "connect", retry_count |-> 0, attempts |-> 0,
             connected |-> FALSE, market_data |-> <<>>]

\* Faulty variant: the failure that brings retry_count to max_retries is
\* not re-raised, so the `while` test ends the loop.
ConnectAttemptNotRaising(d, ping_ok) ==
    IF d.retry_count >= MongoMaxRetries
    THEN [d EXCEPT !.pc = "setup"]
    ELSE IF ping_ok
    THEN [d EXCEPT !.attempts = @ + 1, !.connected = TRUE, !.pc = "setup"]
    ELSE [d EXCEPT !.attempts = @ + 1, !.retry_count = @ + 1]

\* while retry_count < max_retries: MongoClient(...) and the ping; a ping
\* that succeeds breaks out of the loop; a failure adds one to retry_count
\* and, at max_retries, is re-raised out of the constructor, otherwise the
\* loop sleeps 1 s and tries again.
ConnectAttempt(d, ping_ok) ==
    IF d.retry_count >= MongoMaxRetries
    THEN [d EXCEPT !.pc = "setup"]
    ELSE IF ping_ok
    THEN [d EXCEPT !.attempts = @ + 1, !.connected = TRUE, !.pc = "setup"]
    ELSE [d EXCEPT !.attempts = @ + 1, !.retry_count = @ + 1,
                   !.pc = IF d.retry_count + 1 = MongoMaxRetries
                          THEN "raised" ELSE "connect"]

MongoConnect ==
    /\ db.pc = "connect"
    /\ \E ping_ok \in BOOLEAN : db' = ConnectAttempt(db, ping_ok)
    /\ UNCHANGED <<botVars, svcVars, clockVars, apiVars, trdVars, updVars, muVars,
                   runVars, callVars, probeVars, alertVars, thrVars>>

\* The database, the collections and _setup_indexes(): create_index goes to
\* the server and raises out of the constructor when the server is lost.
MongoSetup ==
    /\ db.pc = "setup"
    /\ \E indexes_ok \in BOOLEAN :
          db' = [db EXCEPT !.pc = IF indexes_ok /\ db.connected
                                 THEN "initialized" ELSE "raised"]
    /\ UNCHANGED <<botVars, svcVars, clockVars, apiVars, trdVars, updVars, muVars,
                   runVars, callVars, probeVars, alertVars, thrVars>>

\* The record update_market_data builds for a symbol (raw_data, which no
\* shape test reads, is left out).
MarketData(symbol, t) ==
    [symbol |-> symbol, timestamp |-> t,
     data |-> [price |-> 1, volume |-> 1], exchange |-> "binance"]

\* The records handed to store_market_data: the one of update_market_data,
\* and the bare price and volume of test_store_and_retrieve_market_data.
StoredData(symbol, t) == {MarketData(symbol, t), [price |-> 1, volume |-> 1]}

\* store_market_data: document = {"symbol": symbol, "timestamp":
\* datetime.now(), "data": data}
Document(symbol, t, data) == [symbol |-> symbol, timestamp |-> t, data |-> data]

\* store_market_data(symbol, data): insert_one(document), or the insert
\* raises and the fault is raised on.
CallStoreMarketData ==
    /\ db.pc = "initialized"
    /\ Len(db.market_data) < MaxStored
    /\ \E symbol \in Symbols, inserted \in BOOLEAN :
          \E data \in StoredData(symbol, now) :
             /\ db' = IF inserted
                      THEN [db EXCEPT !.market_data =
                                Append(@, Document(symbol, now, data))]
                      ELSE db
             /\ api_call' = [op |-> "store_market_data",
                             response |-> IF inserted THEN "stored" ELSE "raised",
                             value |-> [symbol |-> symbol, data |-> data]]
    /\ UNCHANGED <<botVars, svcVars, clockVars, apiVars, trdVars, updVars, muVars,
                   runVars, callVars, fault_run, alertVars, thrVars>>

\* find({"symbol": symbol}).sort("timestamp", DESCENDING).limit(1): the
\* documents of the symbol with the latest timestamp; among documents of one
\* timestamp the server returns any.
LatestDocuments(collection, symbol) ==
    {i \in DOMAIN collection :
        /\ collection[i].symbol = symbol
        /\ \A j \in DOMAIN collection :
              collection[j].symbol = symbol
                  => collection[j].timestamp <= collection[i].timestamp}

\* get_latest_market_data(symbol, limit=1): the list of that one document, or
\* the empty list.
GetLatestMarketData(collection, symbol) ==
    IF LatestDocuments(collection, symbol) = {}
    THEN {<<>>}
    ELSE {<<collection[i]>> : i \in LatestDocuments(collection, symbol)}

\* trading_loop: `if not market_data or len(market_data) == 0` and
\* `if 'data' not in latest_data or 'price' not in latest_data['data']`
\* (both `continue`), else process_market_data(latest_data).
FetchOutcome(market_data) ==
    IF Len(market_data) = 0 THEN "empty"
    ELSE IF \/ "data" \notin DOMAIN market_data[1]
            \/ "price" \notin DOMAIN market_data[1].data
    THEN "malformed"
    ELSE "ok"

\* market_data = self.db.get_latest_market_data(symbol, limit=1)
CallGetLatestMarketData ==
    /\ db.pc = "initialized"
    /\ \E symbol \in Symbols :
          \E market_data \in GetLatestMarketData(db.market_data, symbol) :
             api_call' = Returned("market_data", market_data)
    /\ UNCHANGED <<botVars, svcVars, clockVars, apiVars, trdVars, updVars, muVars,
                   runVars, callVars, fault_run, alertVars, dbVars, thrVars>>

\* A MongoDBManager from its construction on, and a caller that stores and
\* reads market data while the clock moves on.
NextMongo ==
    \/ MongoConnect
    \/ MongoSetup
    \/ CallStoreMarketData
    \/ CallGetLatestMarketData
    \/ ClockAdvance

SpecMongo == InitMongo /\ [][NextMongo]_vars

\* The record just stored had the fields data.price and data.volume, and the
\* read that follows returns the document that holds it.
ReadsBackStoredRecord ==
    /\ api_call.op = "store_market_data"
    /\ api_call.response = "stored"
    /\ "data" \in DOMAIN api_call.value.data
    /\ {"price", "volume"} \subseteq DOMAIN api_call.value.data.data
    /\ api_call'.op = "returned"
    /\ api_call'.response = "market_data"
    /\ Len(api_call'.value) = 1
    /\ api_call'.value[1].symbol = api_call.value.symbol
    /\ api_call'.value[1].data = api_call.value.data

\* C33: a market record with the fields data.price and data.volume, stored
\* with store_market_data and read back with get_latest_market_data(symbol,
\* limit=1), has 'price' inside its 'data' field and passes the trading
\* loop's shape validation.
StoredRecordPassesValidation ==
    [][ReadsBackStoredRecord
       => /\ "price" \in DOMAIN api_call'.value[1].data
          /\ FetchOutcome(api_call'.value) = "ok"]_vars

\* C39: the constructor makes at most 3 connection attempts; it stops
\* retrying at the first successful ping and goes on to set up the
\* collections; it re-raises after the third failure in a row; it never
\* sets up collections or indexes without a successful connection.
ConnectsWithinThreeAttempts ==
    /\ db.attempts <= MongoMaxRetries
    /\ db.pc = "connect" => (~db.connected /\ db.retry_count < MongoMaxRetries)
    /\ db.connected => db.attempts = db.retry_count + 1
    /\ db.pc \in {"setup", "initialized"} => db.connected
    /\ (db.pc = "raised" /\ ~db.connected)
          => (db.retry_count = MongoMaxRetries /\ db.attempts = MongoMaxRetries)

\* The constructor has connected at its third attempt, after two failures,
\* and has set up the collections.
ConnectedAtThirdAttempt ==
    db.pc = "initialized" /\ db.retry_count = 2 /\ db.attempts = 3

\* ------------------------------------------------- timeouts in stop()
\* stop() leaves a wait with its timeout elapsed: an Event.wait that returns
\* with the event still unset, or a join that returns with the thread
\* still alive.
MonitoringWaitTimesOut ==
    main_pc = "wait_monitoring" /\ main_pc' # main_pc /\ ~shutdown_complete
UpdaterWaitTimesOut ==
    main_pc = "wait_updater" /\ main_pc' # main_pc /\ ~upd_shutdown_complete
JoinTimesOut(at, pc) == main_pc = at /\ main_pc' # main_pc /\ Alive(pc)

\* C34: in stop() on a started bot a wait runs to its timeout only for a
\* loop that is still
\* active: the wait for the monitoring service only while the monitoring
\* loop is active, the wait for the data updater only while the data-update
\* loop is active, a join only on a thread still alive; so with the three
\* loops of a started bot already exited no timeout elapses.
StopWaitsOnlyForActiveLoops ==
    [][/\ (Started /\ MonitoringWaitTimesOut) => Alive(mon_pc)
       /\ (Started /\ UpdaterWaitTimesOut) => Alive(upd_pc)
       /\ JoinTimesOut("join_monitoring", mon_pc) => Alive(mon_pc)
       /\ JoinTimesOut("join_trading", trd_pc) => Alive(trd_pc)
       /\ JoinTimesOut("join_data_update", upd_pc) => Alive(upd_pc)
       /\ (Started /\ AllLoopsDone)
             => ~(MonitoringWaitTimesOut \/ UpdaterWaitTimesOut)]_vars

\* --------------------------------------- the gate while checks fail
\* The bot's caller, its monitoring loop and its trading loop, with the clock
\* running so that the endpoints come due again and again. Whether a check
\* returns or raises leaves no trace in the state (MonCheck), so every
\* behaviour is also one in which the exchange fails every check.
NextExchangeDown ==
    \/ MainStep
    \/ MonStep
    \/ TrdStep
    \/ Tick

SpecExchangeDown == Init /\ [][NextExchangeDown]_vars

\* Fairness: start() runs to its end, the two loop threads keep running and
\* time passes; nobody is assumed to call stop().
FairExchangeDownSpec ==
    SpecExchangeDown /\ WF_vars(StartStep) /\ WF_vars(MonStep)
        /\ WF_vars(TrdStep) /\ WF_vars(Tick)

\* C35: with the endpoints failing on every check while the bot runs, the
\* trading loop eventually reads an error_rate above 0.1 from the summary
\* (and then skips its cycles), unless the bot has stopped running.
FailingChecksPauseTrading ==
    (is_running /\ mon_pc = "check")
        ~> (TradingPaused(monitoring_metrics) \/ ~is_running)

\* ------------------------------------------------ start() called again
\* start() on a bot that was started before. start() tests nothing:
\* self.is_running = True, then the three launches.
BotStartAgain ==
    /\ main_pc = "idle"
    /\ Started
    /\ is_running' = TRUE
    /\ main_pc' = "start_monitoring"
    /\ UNCHANGED <<svcVars, clockVars, apiVars, trdVars, updVars, muVars, runVars,
                   callVars, probeVars, alertVars, dbVars, thrVars>>

\* A thread without handle runs the same loop as any other. Of its steps
\* the ones that touch shared state are kept: it ends once it sees its
\* cancellation (the monitoring loop through its `finally`).
OrphanExits ==
    /\ \E kind \in orphans :
          /\ IF kind = "monitoring" THEN stop_event ELSE ~is_running
          /\ orphans' = orphans \ {kind}
          /\ IF kind = "monitoring"
             THEN running' = FALSE /\ shutdown_complete' = TRUE
             ELSE UNCHANGED <<running, shutdown_complete>>
    /\ UNCHANGED <<botVars, mon_pc, mon_idx, stop_event, clockVars, apiVars,
                   trdVars, updVars, muVars, runVars, callVars, probeVars,
                   alertVars, dbVars>>

\* trading_loop without handle: its third error in a row clears is_running
\* and ends it.
OrphanTradingStops ==
    /\ "trading" \in orphans
    /\ is_running
    /\ is_running' = FALSE
    /\ orphans' = orphans \ {"trading"}
    /\ UNCHANGED <<main_pc, svcVars, clockVars, apiVars, trdVars, updVars, muVars,
                   runVars, callVars, probeVars, alertVars, dbVars>>

\* run_updates without handle: self.data_updater.update_market_data(symbol)
OrphanUpdates ==
    /\ "data update" \in orphans
    /\ is_running
    /\ \E symbol \in Symbols, outcome \in UpdateOutcomes :
          UpdateMarketData(symbol, outcome)
    /\ UNCHANGED <<botVars, svcVars, clockVars, apiVars, trdVars, updVars,
                   upd_stop_event, upd_shutdown_complete, api_monitor_kind,
                   runVars, world, probeVars, alertVars, dbVars, thrVars>>

\* MonitoringService.run without handle: should_check_endpoint advances
\* last_check of an endpoint that is due; the check itself leaves no trace.
OrphanChecks ==
    /\ "monitoring" \in orphans
    /\ ~stop_event
    /\ \E e \in Endpoints :
          /\ EndpointDue(e)
          /\ since_check' = MarkChecked(e)
          /\ since_started' = [since_started EXCEPT ![e] = 0]
    /\ UNCHANGED <<botVars, svcVars, since_summary, apiVars, trdVars, updVars,
                   muVars, runVars, callVars, probeVars, alertVars, dbVars,
                   thrVars>>

OrphanStep ==
    \/ OrphanExits
    \/ OrphanTradingStops
    \/ OrphanUpdates
    \/ OrphanChecks

\* The caller calls start() again after a stop(), once the three loops
\* have ended.
BotRestart == AllLoopsDone /\ BotStartAgain

\* The bot with a caller that starts it again after each stop().
NextRestart ==
    \/ Next
    \/ BotRestart

SpecRestart == Init /\ [][NextRestart]_vars

\* The caller calls start() again while the bot runs.
BotStartWhileRunning == is_running /\ BotStartAgain

\* The bot with a caller that calls start() and then start() again, and
\* never stop(): the monitoring loops never see a stop signal.
NextStartTwice ==
    \/ StartStep
    \/ BotStartWhileRunning
    \/ MonBegin
    \/ MonLoopHead
    \/ MonNextEndpoint
    \/ MonDecide
    \/ MonCheck
    \/ MonAlerts
    \/ TrdStep
    \/ UpdStep
    \/ OrphanStep

SpecStartTwice == Init /\ [][NextStartTwice]_vars

\* C36: the bot can be restarted: a loop launched by start() after an
\* earlier start() and stop() iterates like one launched by the first
\* start(): none ends while is_running is True, that is, on a cancellation
\* signal left over from before the start(). (shutdown_complete tells that
\* an earlier monitoring loop has run and ended.)
RestartedLoopsIterate ==
    [][/\ (mon_pc = "loop" /\ mon_pc' = "finally" /\ shutdown_complete)
            => ~is_running
       /\ (trd_pc = "loop" /\ trd_pc' = "done") => ~is_running
       /\ (upd_pc = "loop" /\ upd_pc' = "done") => ~is_running]_vars

\* C37: at any time at most one monitoring loop, one trading loop and one
\* data-update loop are executing, also when start() is called again while
\* the bot runs.
OneLoopOfEachKind ==
    /\ ~("monitoring" \in orphans /\ Alive(mon_pc))
    /\ ~("trading" \in orphans /\ Alive(trd_pc))
    /\ ~("data update" \in orphans /\ Alive(upd_pc))

\* C38: the monitoring loop emits the aggregate summary only when 300 s
\* have passed since the last emission, the timer is reset at each emission,
\* and the tick ends normally whether or not the summary was emitted: it
\* goes on to the 1 s sleep and the next test of the loop condition, not
\* through the loop's error handler and its 5 s backoff.
SummaryTickCompletesNormally ==
    [][(mon_pc = "alerts" /\ mon_pc' \notin {"alerts", "finally"})
           => /\ since_summary' = IF SummaryDue THEN 0 ELSE since_summary
              /\ mon_pc' = "loop"]_vars

====
